---- MODULE Spec2Model ----
(***************************************************************************)
(* Risk-gated strategy execution engine of Composable-AI-vaults.           *)
(*                                                                         *)
(*   execution/strategy_executor_robust.py   RobustStrategyExecutor        *)
(*   agent/risk_model.py                     RiskModel                     *)
(*   ml-risk/risk_api.py                     RiskAssessmentAPI             *)
(*   ml-risk/anomaly_risk_model.py           DeFiAnomalyDetector           *)
(*   vault_manager.py                        VaultConnectionManager        *)
(*   main.py                                 ComposableYieldOptimizer      *)
(*   agent/knowledge_box.py                  KnowledgeBox                  *)
(*                                                                         *)
(* Gas prices are in gwei.  Risk scores, anomaly scores and thresholds are *)
(* in hundredths (0.5 is 50).                                              *)
(***************************************************************************)
EXTENDS Integers, Sequences, FiniteSets, TLC

VARIABLES
    strategy,        \* the strategy dict handed to execute / score_strategy
    max_retries,     \* self.max_retries
    min_gas_price,   \* self.min_gas_price
    max_gas_price,   \* self.max_gas_price
    pc,              \* position of the executing flow inside execute
    idx,             \* 1-based position of the action being executed
    attempt,         \* loop variable of _execute_action_with_retry
    step,            \* which transaction of the running handler is next
    gasQuery,        \* last answer of w3.eth.gas_price
    lastTx,          \* the transaction most recently built (tx_data)
    txs,             \* every transaction accepted by send_raw_transaction
    awaiting,        \* indices in txs of the receipts being waited for
    attempts,        \* per action: calls of _execute_action
    outcomes,        \* per action: how each finished attempt ended
    reported,        \* per action: value returned by _execute_action_with_retry
    result,          \* value returned by execute
    sleeps,          \* per action: the backoff waits slept, in seconds
    private_key,     \* whether PRIV_KEY is set in the environment
    rpc_at_startup,  \* the chains whose RPC endpoint answers during __init__
    risk_api,        \* RiskModel.risk_api / RiskAssessmentAPI.detector
    detector,        \* what the detector does when it is asked
    threshold,       \* risk_threshold argument of is_strategy_safe
    call,            \* the scorer call that has been made and what it returned
    connected_vaults,\* VaultConnectionManager.connected_vaults
    now,             \* time.time(), in seconds
    reg_call,        \* the registry call made last and what it returned
    o_pc,            \* position of the orchestrator inside optimize_vault
    vault_balance,   \* what get_vault_balance returned to optimize_vault
    market,          \* market_analysis of optimize_vault
    strategy_addresses, \* strategy names with a configured contract address
    optimization_interval, \* self.optimization_interval, in seconds
    risk_score,      \* local risk_score of optimize_vault
    is_safe,         \* local is_safe of optimize_vault
    o_result,        \* value returned by optimize_vault
    calls,           \* calls made so far by the running optimize_vault
    strategy_outcomes, \* KnowledgeBox.strategy_outcomes
    l_pc,            \* position of run_continuous
    cycle,           \* number of calls of run_optimization_cycle so far
    todo,            \* candidates the running cycle has still to process
    active,          \* the calls of run_optimization_cycle that have not returned
    last_pass        \* history: per (vault, user) pair, when a cycle last processed it

vars == <<strategy, max_retries, min_gas_price, max_gas_price, private_key, rpc_at_startup, pc, idx,
          attempt, step, gasQuery, lastTx, txs, awaiting, attempts, sleeps, outcomes,
          reported, result, risk_api, detector, threshold, call,
          connected_vaults, now, reg_call, o_pc, vault_balance, market,
          strategy_addresses, optimization_interval, risk_score, is_safe, o_result, calls,
          strategy_outcomes, l_pc, cycle, todo, active, last_pass>>

execVars == <<max_retries, min_gas_price, max_gas_price, private_key, rpc_at_startup, pc, idx,
              attempt, step, gasQuery, lastTx, txs, awaiting, attempts, sleeps,
              outcomes, reported, result>>

riskVars == <<risk_api, detector, threshold, call>>

regVars == <<connected_vaults, now, reg_call>>

orchVars == <<o_pc, vault_balance, market, strategy_addresses, optimization_interval, risk_score,
              is_safe, o_result, calls, strategy_outcomes>>

loopVars == <<l_pc, cycle, todo, active, last_pass>>

(***************************************************************************)
(* Bounds                                                                  *)
(***************************************************************************)
MaxActions == 3
MaxRetries == 3
MaxGas == 3
MaxRiskActions == 2
MaxTicks == 4
MaxOptRetries == 2
MaxCycles == 2
MaxSeconds == 3

Max(a, b) == IF a >= b THEN a ELSE b
Min(a, b) == IF a <= b THEN a ELSE b

(***************************************************************************)
(* Strategies and actions (python dicts).  fields is the set of keys the   *)
(* dict has; a value whose key is absent is never read.                    *)
(***************************************************************************)
RequiredStrategyFields == {"strategy_type", "target_protocol", "actions"}
RequiredActionFields == {"action_type", "parameters"}
ScoringFields == {"strategy_type", "target_protocol", "actions", "expected_outcome"}

RecognizedTags == {"claim_and_optimize", "deploy_to_strategy",
                   "rebalance_strategies", "harvest_strategy",
                   "emergency_exit", "cross_chain_deploy",
                   "enable_yield_optimization", "claim_enhanced_royalties"}

\* an action_type no handler is registered for, and one that is not hashable
UnknownTag == "unknown_action"
UnhashableTag == "<unhashable>"

\* parameters: req says that the keys the handler reads are present and
\* convertible; contract / protocol are the values of those keys ("absent"
\* when the key is missing)
Params(req, contract, protocol) ==
    [req |-> req, contract |-> contract, protocol |-> protocol]

Action(fields, tag, params) ==
    [fields |-> fields, action_type |-> tag, parameters |-> params]

Strategy(fields, target, actions) ==
    [fields |-> fields, target_protocol |-> target, actions |-> actions]

(***************************************************************************)
(* RobustStrategyExecutor: validation                                      *)
(***************************************************************************)
\* the check forgets the parameters key
validate_action_type_only(action) == "action_type" \in action.fields

validate_action(action) == RequiredActionFields \subseteq action.fields

\* the check of the top-level keys covers the action list only
validate_strategy_actions_only(s) ==
    /\ "actions" \in s.fields
    /\ \A i \in 1..Len(s.actions) : validate_action(s.actions[i])

validate_strategy(s) ==
    /\ RequiredStrategyFields \subseteq s.fields
    /\ \A i \in 1..Len(s.actions) : validate_action(s.actions[i])

(***************************************************************************)
(* RobustStrategyExecutor: handlers.  A handler is the sequence of         *)
(* transactions it builds, each with the chain connection it is sent on;   *)
(* every transaction is awaited before the next one is built.              *)
(***************************************************************************)
Chains == {"story", "ethereum"}

get_chain_for_strategy(strategy_address) == "ethereum"

claim_and_optimize == <<[chain |-> "story", op |-> "claimAndOptimize"]>>

deploy_to_strategy ==
    <<[chain |-> get_chain_for_strategy("strategy"), op |-> "depositToStrategy"]>>

harvest_strategy ==
    <<[chain |-> get_chain_for_strategy("strategy"), op |-> "harvestStrategy"]>>

rebalance_strategies == harvest_strategy \o deploy_to_strategy

emergency_exit == <<[chain |-> "story", op |-> "emergencyExit"]>>

cross_chain_deploy == <<[chain |-> "story", op |-> "deployToChain"]>>

enable_yield_optimization == << >>

\* the claim goes to the chain looked up for the strategy
claim_enhanced_royalties_on_strategy_chain ==
    <<[chain |-> get_chain_for_strategy("strategy"), op |-> "claimEnhancedRevenue"]>>

claim_enhanced_royalties == <<[chain |-> "story", op |-> "claimEnhancedRevenue"]>>

action_handlers(tag) ==
    CASE tag = "claim_and_optimize" -> claim_and_optimize
      [] tag = "deploy_to_strategy" -> deploy_to_strategy
      [] tag = "rebalance_strategies" -> rebalance_strategies
      [] tag = "harvest_strategy" -> harvest_strategy
      [] tag = "emergency_exit" -> emergency_exit
      [] tag = "cross_chain_deploy" -> cross_chain_deploy
      [] tag = "enable_yield_optimization" -> enable_yield_optimization
      [] tag = "claim_enhanced_royalties" -> claim_enhanced_royalties

\* what one call of _execute_action does before any transaction is built:
\*   "raise"   action_handlers.get raises on an unhashable action_type
\*   "unknown" no handler: returns False
\*   "params"  the handler's own try block fails on the parameters: False
\*   "ok"      the handler returns True without building a transaction
\*   "build"   the handler goes on to build its first transaction
execute_action(action) ==
    IF action.action_type = UnhashableTag THEN "raise"
    ELSE IF action.action_type \notin RecognizedTags THEN "unknown"
    ELSE IF ~action.parameters.req THEN "params"
    ELSE IF Len(action_handlers(action.action_type)) = 0 THEN "ok"
    ELSE "build"

(***************************************************************************)
(* RobustStrategyExecutor: building a transaction                          *)
(***************************************************************************)
NoQuery == [st |-> "none", g |-> 0]

\* the upper bound is not applied
get_optimal_gas_price_no_cap(q) ==
    IF q.st = "error" THEN min_gas_price
    ELSE Max(q.g, min_gas_price)

get_optimal_gas_price(q) ==
    IF q.st = "error" THEN min_gas_price
    ELSE Min(Max(q.g, min_gas_price), max_gas_price)

\* w3.eth.get_transaction_count(wallet): the sender's transactions the chain
\* has included in a block
get_transaction_count(chain) ==
    Cardinality({i \in DOMAIN txs : txs[i].chain = chain /\ txs[i].status # "pending"})

NoTx == [chain |-> "none", op |-> "none", action |-> 0, gasPrice |-> 0, nonce |-> 0]

(***************************************************************************)
(* RobustStrategyExecutor.execute as a flow of control.  pc is             *)
(*   "new"       __init__ has not run                                      *)
(*   "raised"    __init__ has raised: there is no engine                   *)
(*   "idle"      execute has not been called                               *)
(*   "dispatch"  _execute_action_with_retry is about to call               *)
(*               _execute_action (attempt number attempt)                  *)
(*   "build"     the handler is about to build its next transaction        *)
(*   "send"      a transaction is built; sign and send come next           *)
(*   "awaiting"  blocked in wait_for_transaction_receipt                   *)
(*   "backoff"   in time.sleep(5 * (attempt + 1)) between two attempts     *)
(*   "between"   in time.sleep(2) after an action that succeeded           *)
(*   "done"      execute has returned result                               *)
(***************************************************************************)
NActions == Len(strategy.actions)

CurrentAction == strategy.actions[idx]

CurrentPlan == action_handlers(CurrentAction.action_type)

\* execute returns r
Return(r) ==
    /\ pc' = "done"
    /\ result' = r
    /\ UNCHANGED <<idx, attempt, step>>

\* a strategy without actions is a failure
StartAction_empty_is_failure(i) ==
    IF NActions = 0 THEN
        /\ Return("false")
        /\ UNCHANGED reported
    ELSE IF i > NActions THEN
        /\ Return("true")
        /\ UNCHANGED reported
    ELSE IF max_retries <= 0 THEN
        /\ pc' = "done"
        /\ result' = "false"
        /\ idx' = i
        /\ UNCHANGED <<attempt, step>>
        /\ reported' = [reported EXCEPT ![i] = "false"]
    ELSE
        /\ pc' = "dispatch"
        /\ idx' = i
        /\ attempt' = 0
        /\ step' = 1
        /\ UNCHANGED <<result, reported>>

\* the body of the for loop of execute starts on action i, or the loop ends
StartAction(i) ==
    IF i > NActions THEN
        /\ Return("true")
        /\ UNCHANGED reported
    ELSE IF max_retries <= 0 THEN
        \* range(self.max_retries) is empty: _execute_action_with_retry
        \* returns False at once
        /\ pc' = "done"
        /\ result' = "false"
        /\ idx' = i
        /\ UNCHANGED <<attempt, step>>
        /\ reported' = [reported EXCEPT ![i] = "false"]
    ELSE
        /\ pc' = "dispatch"
        /\ idx' = i
        /\ attempt' = 0
        /\ step' = 1
        /\ UNCHANGED <<result, reported>>

\* one attempt too many: the bound of the loop is max_retries + 1
AttemptFailed_one_more(why) ==
    /\ outcomes' = [outcomes EXCEPT ![idx] = Append(@, why)]
    /\ gasQuery' = NoQuery
    /\ lastTx' = NoTx
    /\ IF attempt < max_retries THEN
          /\ pc' = "backoff"
          /\ UNCHANGED <<idx, attempt, step, result, reported>>
       ELSE
          /\ Return("false")
          /\ reported' = [reported EXCEPT ![idx] = "false"]

\* an exhausted action does not end execute: the loop goes on
AttemptFailed_continue(why) ==
    /\ outcomes' = [outcomes EXCEPT ![idx] = Append(@, why)]
    /\ gasQuery' = NoQuery
    /\ lastTx' = NoTx
    /\ IF attempt < max_retries - 1 THEN
          /\ pc' = "backoff"
          /\ UNCHANGED <<idx, attempt, step, result, reported>>
       ELSE StartAction(idx + 1)

\* the running attempt ends without success: _execute_action returned False
\* or raised; why is recorded.  The handler's locals (tx_data) die with it.
AttemptFailed(why) ==
    /\ outcomes' = [outcomes EXCEPT ![idx] = Append(@, why)]
    /\ gasQuery' = NoQuery
    /\ lastTx' = NoTx
    /\ IF attempt < max_retries - 1 THEN
          /\ pc' = "backoff"
          /\ UNCHANGED <<idx, attempt, step, result, reported>>
       ELSE
          /\ Return("false")
          /\ reported' = [reported EXCEPT ![idx] = "false"]

\* a success does not leave the retry loop
AttemptSucceeded_no_return ==
    /\ outcomes' = [outcomes EXCEPT ![idx] = Append(@, "ok")]
    /\ gasQuery' = NoQuery
    /\ lastTx' = NoTx
    /\ IF attempt < max_retries - 1 THEN
          /\ pc' = "backoff"
          /\ UNCHANGED <<idx, attempt, step, result, reported>>
       ELSE
          /\ reported' = [reported EXCEPT ![idx] = "true"]
          /\ pc' = "between"
          /\ UNCHANGED <<idx, attempt, step, result>>

\* the running attempt ends with success
AttemptSucceeded ==
    /\ outcomes' = [outcomes EXCEPT ![idx] = Append(@, "ok")]
    /\ gasQuery' = NoQuery
    /\ lastTx' = NoTx
    /\ reported' = [reported EXCEPT ![idx] = "true"]
    /\ pc' = "between"
    /\ UNCHANGED <<idx, attempt, step, result>>

\* RobustStrategyExecutor.__init__: _setup_web3_connections creates both
\* connections and only logs the chains that do not answer; then the
\* signing key is read and ValueError is raised when it is missing
Construct ==
    /\ pc = "new"
    /\ pc' = IF private_key THEN "idle" ELSE "raised"
    /\ UNCHANGED <<strategy, max_retries, min_gas_price, max_gas_price,
                   private_key, rpc_at_startup, idx, attempt, step, gasQuery,
                   lastTx, txs, awaiting, attempts, sleeps, outcomes,
                   reported, result>>
    /\ UNCHANGED <<riskVars, regVars, orchVars, loopVars>>

\* what a call of execute does to the engine: validation, then the first
\* action
ExecuteCall ==
    /\ pc = "idle"
    /\ IF validate_strategy(strategy) THEN StartAction(1)
       ELSE Return("false") /\ UNCHANGED reported
    /\ UNCHANGED <<strategy, max_retries, min_gas_price, max_gas_price, private_key, rpc_at_startup,
                   gasQuery, lastTx, txs, awaiting, attempts, sleeps, outcomes>>

\* execute is called by a caller other than the orchestrator
Execute ==
    /\ ExecuteCall
    /\ UNCHANGED <<riskVars, regVars, orchVars, loopVars>>

\* _execute_action is called and finishes without building a transaction
DispatchNoTx ==
    /\ pc = "dispatch"
    /\ execute_action(CurrentAction) # "build"
    /\ attempts' = [attempts EXCEPT ![idx] = @ + 1]
    /\ IF execute_action(CurrentAction) = "ok" THEN AttemptSucceeded
       ELSE AttemptFailed(execute_action(CurrentAction))
    /\ UNCHANGED <<strategy, max_retries, min_gas_price, max_gas_price, private_key, rpc_at_startup,
                   txs, awaiting, sleeps>>
    /\ UNCHANGED <<riskVars, regVars, orchVars, loopVars>>

\* the handler builds tx_data for its next transaction: gas price query
\* (q), nonce query, build_transaction
BuildTx(q) ==
    /\ \/ pc = "dispatch" /\ execute_action(CurrentAction) = "build"
       \/ pc = "build"
    /\ attempts' = IF pc = "dispatch" THEN [attempts EXCEPT ![idx] = @ + 1]
                   ELSE attempts
    /\ gasQuery' = q
    /\ lastTx' = [chain |-> CurrentPlan[step].chain,
                  op |-> CurrentPlan[step].op,
                  action |-> idx,
                  gasPrice |-> get_optimal_gas_price(q),
                  nonce |-> get_transaction_count(CurrentPlan[step].chain)]
    /\ pc' = "send"
    /\ UNCHANGED <<strategy, max_retries, min_gas_price, max_gas_price, private_key, rpc_at_startup,
                   idx, attempt, step, txs, awaiting, sleeps, outcomes, reported,
                   result>>
    /\ UNCHANGED <<riskVars, regVars, orchVars, loopVars>>

\* build_transaction, sign_transaction or send_raw_transaction raises:
\* nothing is submitted, the handler returns False
SendFails ==
    /\ pc = "send"
    /\ AttemptFailed("send_error")
    /\ UNCHANGED <<strategy, max_retries, min_gas_price, max_gas_price, private_key, rpc_at_startup,
                   txs, awaiting, attempts, sleeps>>
    /\ UNCHANGED <<riskVars, regVars, orchVars, loopVars>>

\* send_raw_transaction accepts the transaction; the flow blocks in
\* wait_for_transaction_receipt(tx_hash, timeout=300)
SendTx ==
    /\ pc = "send"
    /\ txs' = Append(txs, [chain |-> lastTx.chain, op |-> lastTx.op,
                           action |-> lastTx.action, nonce |-> lastTx.nonce,
                           status |-> "pending"])
    /\ awaiting' = awaiting \cup {Len(txs) + 1}
    /\ pc' = "awaiting"
    /\ UNCHANGED <<strategy, max_retries, min_gas_price, max_gas_price, private_key, rpc_at_startup,
                   idx, attempt, step, gasQuery, lastTx, attempts, sleeps, outcomes,
                   reported, result>>
    /\ UNCHANGED <<riskVars, regVars, orchVars, loopVars>>

\* the receipt arrives with status 1
ReceiptOk ==
    /\ pc = "awaiting"
    /\ txs' = [k \in DOMAIN txs |->
                IF k \in awaiting THEN [txs[k] EXCEPT !.status = "ok"] ELSE txs[k]]
    /\ awaiting' = {}
    /\ IF step < Len(CurrentPlan) THEN
          \* the handler goes on to its next transaction
          /\ pc' = "build"
          /\ step' = step + 1
          /\ UNCHANGED <<idx, attempt, result, outcomes, reported, gasQuery, lastTx>>
       ELSE AttemptSucceeded
    /\ UNCHANGED <<strategy, max_retries, min_gas_price, max_gas_price, private_key, rpc_at_startup,
                   attempts, sleeps>>
    /\ UNCHANGED <<riskVars, regVars, orchVars, loopVars>>

\* the status of the receipt is not looked at
ReceiptFailed_unchecked ==
    /\ pc = "awaiting"
    /\ txs' = [k \in DOMAIN txs |->
                IF k \in awaiting THEN [txs[k] EXCEPT !.status = "failed"] ELSE txs[k]]
    /\ awaiting' = {}
    /\ AttemptSucceeded
    /\ UNCHANGED <<strategy, max_retries, min_gas_price, max_gas_price, private_key, rpc_at_startup,
                   attempts, sleeps>>
    /\ UNCHANGED <<riskVars, regVars, orchVars, loopVars>>

\* the receipt arrives with a failure status
ReceiptFailed ==
    /\ pc = "awaiting"
    /\ txs' = [k \in DOMAIN txs |->
                IF k \in awaiting THEN [txs[k] EXCEPT !.status = "failed"] ELSE txs[k]]
    /\ awaiting' = {}
    /\ AttemptFailed("receipt_failed")
    /\ UNCHANGED <<strategy, max_retries, min_gas_price, max_gas_price, private_key, rpc_at_startup,
                   attempts, sleeps>>
    /\ UNCHANGED <<riskVars, regVars, orchVars, loopVars>>

\* no receipt within the timeout: wait_for_transaction_receipt raises, the
\* transaction stays where it is
ReceiptTimeout ==
    /\ pc = "awaiting"
    /\ awaiting' = {}
    /\ AttemptFailed("timeout")
    /\ UNCHANGED <<strategy, max_retries, min_gas_price, max_gas_price, private_key, rpc_at_startup,
                   txs, attempts, sleeps>>
    /\ UNCHANGED <<riskVars, regVars, orchVars, loopVars>>

\* the wait is the same after every failed attempt
backoff_delay_constant(a) == 5

\* the argument of time.sleep after the failed attempt a (0-based)
backoff_delay(a) == 5 * (a + 1)

\* the next attempt resumes the handler at the transaction that failed
Backoff_resumes_handler ==
    /\ pc = "backoff"
    /\ pc' = IF step = 1 THEN "dispatch" ELSE "build"
    /\ sleeps' = [sleeps EXCEPT ![idx] = Append(@, backoff_delay(attempt))]
    /\ attempt' = attempt + 1
    /\ attempts' = IF step = 1 THEN attempts ELSE [attempts EXCEPT ![idx] = @ + 1]
    /\ UNCHANGED <<strategy, max_retries, min_gas_price, max_gas_price, private_key, rpc_at_startup,
                   idx, step, gasQuery, lastTx, txs, awaiting, outcomes,
                   reported, result>>
    /\ UNCHANGED <<riskVars, regVars, orchVars, loopVars>>

\* the sleep between two attempts ends; the for loop takes the next attempt
Backoff ==
    /\ pc = "backoff"
    /\ pc' = "dispatch"
    /\ sleeps' = [sleeps EXCEPT ![idx] = Append(@, backoff_delay(attempt))]
    /\ attempt' = attempt + 1
    /\ step' = 1
    /\ UNCHANGED <<strategy, max_retries, min_gas_price, max_gas_price, private_key, rpc_at_startup,
                   idx, gasQuery, lastTx, txs, awaiting, attempts, outcomes,
                   reported, result>>
    /\ UNCHANGED <<riskVars, regVars, orchVars, loopVars>>

\* the sleep after a successful action ends; the for loop of execute goes on
NextAction ==
    /\ pc = "between"
    /\ StartAction(idx + 1)
    /\ UNCHANGED <<strategy, max_retries, min_gas_price, max_gas_price, private_key, rpc_at_startup,
                   gasQuery, lastTx, txs, awaiting, attempts, sleeps, outcomes>>
    /\ UNCHANGED <<riskVars, regVars, orchVars, loopVars>>

(***************************************************************************)
(* RiskModel, RiskAssessmentAPI, DeFiAnomalyDetector                       *)
(***************************************************************************)
DefaultScore == 50

\* the sample of target_protocol values; NonString is a value that is not a
\* python str
NonString == "<None>"
TargetProtocols == {"0xabc", "0XABC", "aave", "AAVE", "Compound V3", "foo", NonString}

startswith_0x(str) == str \in {"0xabc"}

lower(str) ==
    CASE str = "AAVE" -> "aave"
      [] str = "Compound V3" -> "compound v3"
      [] str = "0XABC" -> "0xabc"
      [] OTHER -> str

protocol_addresses ==
    [name \in {"aave", "aave v3", "compound", "compound v3", "uniswap",
               "curve", "usdc", "usdt", "weth"} |->
        CASE name \in {"aave", "aave v3"} -> "0x7fc66500"
          [] name \in {"compound", "compound v3"} -> "0xc00e94cb"
          [] name = "uniswap" -> "0x1f9840a8"
          [] name = "curve" -> "0xd533a949"
          [] name = "usdc" -> "0xa0b86991"
          [] name = "usdt" -> "0xdac17f95"
          [] name = "weth" -> "0xc02aaa39"]

\* an exception leaving a function that returns a string / a number
RaiseStr == "<raise>"
RaiseNum == -1

\* the actions that carry a contract or protocol parameter
CarriesAddress(s) ==
    {i \in 1..Len(s.actions) :
        /\ "parameters" \in s.actions[i].fields
        /\ \/ s.actions[i].parameters.contract # "absent"
           \/ s.actions[i].parameters.protocol # "absent"}

FirstOf(S) == CHOOSE i \in S : \A j \in S : i <= j

extract_protocol_address(s) ==
    LET tp == s.target_protocol
        fromActions ==
            IF "actions" \in s.fields /\ CarriesAddress(s) # {} THEN
                LET params == s.actions[FirstOf(CarriesAddress(s))].parameters
                IN  IF params.contract # "absent" THEN params.contract
                    ELSE params.protocol
            ELSE ""
    IN  IF "target_protocol" \in s.fields THEN
            IF tp # NonString /\ startswith_0x(tp) THEN tp
            ELSE IF tp = NonString THEN RaiseStr      \* protocol.lower()
            ELSE IF lower(tp) \in DOMAIN protocol_addresses
                 THEN protocol_addresses[lower(tp)]
            ELSE fromActions
        ELSE fromActions

validate_strategy_format(s) == ScoringFields \subseteq s.fields

\* 0.5 - anomaly_score is returned as it is
assess_protocol_risk_unclamped(det) ==
    CASE det.kind = "raise" -> RaiseNum
      [] det.kind = "nodata" -> 100
      [] det.kind = "score" -> 50 - det.a

\* DeFiAnomalyDetector.assess_protocol_risk(...)['risk_score'] when the
\* detector behaves as det says: the data fetch or the model raises, the
\* fetch returns no transactions, or the forest returns anomaly score det.a
assess_protocol_risk(det) ==
    CASE det.kind = "raise" -> RaiseNum
      [] det.kind = "nodata" -> 100
      [] det.kind = "score" -> Max(0, Min(100, 50 - det.a))

\* RiskAssessmentAPI.assess_strategy_risk; api is "none" when RiskModel has
\* no risk_api, "nodetector" when the API has no detector, "ready" otherwise
assess_strategy_risk(api, det) ==
    IF api # "ready" THEN DefaultScore
    ELSE assess_protocol_risk(det)

\* the empty resolution is not checked
score_strategy_no_empty_check(s, api, det) ==
    IF ~validate_strategy_format(s) THEN DefaultScore
    ELSE IF extract_protocol_address(s) = RaiseStr THEN DefaultScore
    ELSE IF api # "none" THEN
        IF assess_strategy_risk(api, det) = RaiseNum THEN DefaultScore
        ELSE assess_strategy_risk(api, det)
    ELSE DefaultScore

score_strategy(s, api, det) ==
    IF ~validate_strategy_format(s) THEN DefaultScore
    ELSE IF extract_protocol_address(s) = RaiseStr THEN DefaultScore
    ELSE IF extract_protocol_address(s) = "" THEN DefaultScore
    ELSE IF api # "none" THEN
        IF assess_strategy_risk(api, det) = RaiseNum THEN DefaultScore
        ELSE assess_strategy_risk(api, det)
    ELSE DefaultScore

\* the comparison is not strict
is_strategy_safe_le(s, risk_threshold, api, det) ==
    score_strategy(s, api, det) <= risk_threshold

is_strategy_safe(s, risk_threshold, api, det) ==
    score_strategy(s, api, det) < risk_threshold

\* RiskAssessmentAPI.is_strategy_safe; an exception of the detector leaves it
api_is_strategy_safe(risk_threshold, api, det) ==
    IF assess_strategy_risk(api, det) = RaiseNum THEN "raise"
    ELSE IF assess_strategy_risk(api, det) < risk_threshold THEN "true"
    ELSE "false"

NoCall == [op |-> "none", score |-> 0, safe |-> "none"]

Bool(b) == IF b THEN "true" ELSE "false"

ScoreStrategy ==
    /\ call.op = "none"
    /\ call' = [op |-> "score_strategy",
                score |-> score_strategy(strategy, risk_api, detector),
                safe |-> "none"]
    /\ UNCHANGED <<strategy, risk_api, detector, threshold>>
    /\ UNCHANGED <<execVars, regVars, orchVars, loopVars>>

IsStrategySafe ==
    /\ call.op = "none"
    /\ call' = [op |-> "is_strategy_safe",
                score |-> score_strategy(strategy, risk_api, detector),
                safe |-> Bool(is_strategy_safe(strategy, threshold, risk_api, detector))]
    /\ UNCHANGED <<strategy, risk_api, detector, threshold>>
    /\ UNCHANGED <<execVars, regVars, orchVars, loopVars>>

ApiIsStrategySafe ==
    /\ call.op = "none"
    /\ risk_api # "none"
    /\ call' = [op |-> "api_is_strategy_safe",
                score |-> assess_strategy_risk(risk_api, detector),
                safe |-> api_is_strategy_safe(threshold, risk_api, detector)]
    /\ UNCHANGED <<strategy, risk_api, detector, threshold>>
    /\ UNCHANGED <<execVars, regVars, orchVars, loopVars>>

(***************************************************************************)
(* VaultConnectionManager.  connected_vaults maps a user address to the    *)
(* list of that user's connection records; a user that never connected has *)
(* no key.  Of a record the registry reads vault_address,                  *)
(* optimization_enabled and last_optimized; connected_at, user_balance,    *)
(* ownership_percentage, vault_info and metadata are carried but never     *)
(* read, and are left out of the record.                                   *)
(***************************************************************************)
\* python None in a field that holds a time
None == -1

Cooldown == 3600
HalfCooldown == 1800
StartTime == 1

Users == {"0xu1", "0xu2"}
VaultTokens == {"0xv1", "0xv2"}

\* the (vault, user) pairs the registry is called with: a user with two
\* vaults and a vault with two users
Pairs == {<<"0xv1", "0xu1">>, <<"0xv2", "0xu1">>, <<"0xv1", "0xu2">>}

\* what the chain answers about a vault token address: no code, code
\* without the ERC20 read methods, or an ERC20 contract
ChainCode == {"empty", "unreadable", "erc20"}

\* what balanceOf answers: the call raises, or a balance
Balances == {RaiseNum, 0, 1}

\* what the chain answers during one connect_vault: the balance is asked
\* for only when the code is an ERC20 contract
ChainAnswers ==
    {<<code, 1>> : code \in ChainCode} \cup {<<"erc20", bal>> : bal \in Balances}

validate_royalty_vault(code) == [valid |-> code = "erc20"]

\* a zero balance counts as owned
check_user_ownership_ge(bal) ==
    IF bal = RaiseNum THEN [owns_tokens |-> FALSE, balance |-> 0]
    ELSE [owns_tokens |-> bal >= 0, balance |-> bal]

check_user_ownership(bal) ==
    IF bal = RaiseNum THEN [owns_tokens |-> FALSE, balance |-> 0]
    ELSE [owns_tokens |-> bal > 0, balance |-> bal]

\* self.connected_vaults.get(user_address, [])
get_user_vaults(u) ==
    IF u \in DOMAIN connected_vaults THEN connected_vaults[u] ELSE << >>

\* position of the first record of vault_token_address in list, 0 if none
\* (next(... for v in list if v["vault_address"] == vault_token_address))
existing(list, v) ==
    IF \E i \in 1..Len(list) : list[i].vault_address = v
    THEN CHOOSE i \in 1..Len(list) :
            /\ list[i].vault_address = v
            /\ \A j \in 1..(i - 1) : list[j].vault_address # v
    ELSE 0

connection_info(v, u, ownership) ==
    [vault_address |-> v,
     user_address |-> u,
     optimization_enabled |-> TRUE,
     last_optimized |-> None]

\* the registry with user u's list replaced
with_list(u, list) ==
    [x \in (DOMAIN connected_vaults) \cup {u} |->
        IF x = u THEN list ELSE connected_vaults[x]]

\* a record is appended also when the pair is connected already
connect_vault_append(v, u, code, bal) ==
    IF ~validate_royalty_vault(code).valid THEN
        [success |-> FALSE, vaults |-> connected_vaults]
    ELSE IF ~check_user_ownership(bal).owns_tokens THEN
        [success |-> FALSE, vaults |-> connected_vaults]
    ELSE
        [success |-> TRUE,
         vaults |-> with_list(u, Append(get_user_vaults(u),
                        connection_info(v, u, check_user_ownership(bal))))]

\* the record of a pair connected already is left as it is
connect_vault_keeps_record(v, u, code, bal) ==
    IF ~validate_royalty_vault(code).valid THEN
        [success |-> FALSE, vaults |-> connected_vaults]
    ELSE IF ~check_user_ownership(bal).owns_tokens THEN
        [success |-> FALSE, vaults |-> connected_vaults]
    ELSE
        LET list == get_user_vaults(u)
            info == connection_info(v, u, check_user_ownership(bal))
        IN  [success |-> TRUE,
             vaults |-> with_list(u,
                 IF existing(list, v) # 0 THEN list ELSE Append(list, info))]

\* connect_vault: the value returned (success) and the registry it leaves
connect_vault(v, u, code, bal) ==
    IF ~validate_royalty_vault(code).valid THEN
        [success |-> FALSE, vaults |-> connected_vaults]
    ELSE IF ~check_user_ownership(bal).owns_tokens THEN
        [success |-> FALSE, vaults |-> connected_vaults]
    ELSE
        LET list == get_user_vaults(u)
            info == connection_info(v, u, check_user_ownership(bal))
        IN  [success |-> TRUE,
             vaults |-> with_list(u,
                 IF existing(list, v) # 0
                 THEN [list EXCEPT ![existing(list, v)] = info]
                 ELSE Append(list, info))]

RECURSIVE without(_, _)
\* [v for v in list if v["vault_address"] != vault_token_address]
without(list, v) ==
    IF list = << >> THEN << >>
    ELSE IF Head(list).vault_address = v THEN without(Tail(list), v)
    ELSE <<Head(list)>> \o without(Tail(list), v)

\* every record of the user is dropped
disconnect_vault_drop_user(v, u) ==
    IF u \notin DOMAIN connected_vaults THEN
        [success |-> FALSE, vaults |-> connected_vaults]
    ELSE
        [success |-> Len(without(connected_vaults[u], v)) < Len(connected_vaults[u]),
         vaults |-> with_list(u, << >>)]

disconnect_vault(v, u) ==
    IF u \notin DOMAIN connected_vaults THEN
        [success |-> FALSE, vaults |-> connected_vaults]
    ELSE
        [success |-> Len(without(connected_vaults[u], v)) < Len(connected_vaults[u]),
         vaults |-> with_list(u, without(connected_vaults[u], v))]

\* the status_updates dicts: the one run_optimization_cycle passes, and the
\* switch that takes a vault out of optimization
StatusUpdates == {"last_optimized", "optimization_enabled"}

apply_update(rec, upd) ==
    IF upd = "last_optimized" THEN [rec EXCEPT !.last_optimized = now]
    ELSE [rec EXCEPT !.optimization_enabled = FALSE]

update_vault_status(v, u, upd) ==
    IF u \notin DOMAIN connected_vaults THEN
        [success |-> FALSE, vaults |-> connected_vaults]
    ELSE IF existing(connected_vaults[u], v) = 0 THEN
        [success |-> FALSE, vaults |-> connected_vaults]
    ELSE
        [success |-> TRUE,
         vaults |-> with_list(u,
             [connected_vaults[u] EXCEPT
                 ![existing(connected_vaults[u], v)] = apply_update(@, upd)])]

RECURSIVE Flatten(_, _)
\* the lists of the users in U, one after the other
Flatten(vaults, U) ==
    IF U = {} THEN << >>
    ELSE LET u == CHOOSE x \in U : \A y \in U : x = y \/ x \in {"0xu1"}
         IN  vaults[u] \o Flatten(vaults, U \ {u})

get_all_connected_vaults == Flatten(connected_vaults, DOMAIN connected_vaults)

\* the cooldown has passed only after more than 3600 seconds
cooling_down_le(last_optimized, current_time) ==
    /\ last_optimized # None
    /\ last_optimized # 0
    /\ current_time - last_optimized <= Cooldown

\* last_optimized and (current_time - last_optimized) < 3600
cooling_down(last_optimized, current_time) ==
    /\ last_optimized # None
    /\ last_optimized # 0
    /\ current_time - last_optimized < Cooldown

RECURSIVE candidates_of(_, _)
candidates_of(list, current_time) ==
    IF list = << >> THEN << >>
    ELSE IF ~Head(list).optimization_enabled
         THEN candidates_of(Tail(list), current_time)
    ELSE IF cooling_down(Head(list).last_optimized, current_time)
         THEN candidates_of(Tail(list), current_time)
    ELSE <<Head(list)>> \o candidates_of(Tail(list), current_time)

get_optimization_candidates == candidates_of(get_all_connected_vaults, now)

NoRegCall ==
    [op |-> "none", vault |-> "", user |-> "", code |-> "", bal |-> 0,
     success |-> "none", at |-> 0, candidates |-> << >>]

ConnectVault(v, u, code, bal) ==
    /\ connected_vaults' = connect_vault(v, u, code, bal).vaults
    /\ reg_call' = [NoRegCall EXCEPT !.op = "connect_vault", !.vault = v,
                       !.user = u, !.code = code, !.bal = bal,
                       !.success = Bool(connect_vault(v, u, code, bal).success)]
    /\ UNCHANGED <<strategy, now>>
    /\ UNCHANGED <<execVars, riskVars, orchVars, loopVars>>

DisconnectVault(v, u) ==
    /\ connected_vaults' = disconnect_vault(v, u).vaults
    /\ reg_call' = [NoRegCall EXCEPT !.op = "disconnect_vault", !.vault = v,
                       !.user = u,
                       !.success = Bool(disconnect_vault(v, u).success)]
    /\ UNCHANGED <<strategy, now>>
    /\ UNCHANGED <<execVars, riskVars, orchVars, loopVars>>

UpdateVaultStatus(v, u, upd) ==
    /\ connected_vaults' = update_vault_status(v, u, upd).vaults
    /\ reg_call' = [NoRegCall EXCEPT !.op = "update_vault_status", !.vault = v,
                       !.user = u,
                       !.success = Bool(update_vault_status(v, u, upd).success)]
    /\ UNCHANGED <<strategy, now>>
    /\ UNCHANGED <<execVars, riskVars, orchVars, loopVars>>

GetOptimizationCandidates ==
    /\ reg_call' = [NoRegCall EXCEPT !.op = "get_optimization_candidates",
                       !.at = now, !.candidates = get_optimization_candidates]
    /\ UNCHANGED <<strategy, connected_vaults, now>>
    /\ UNCHANGED <<execVars, riskVars, orchVars, loopVars>>

\* half a cooldown period passes
Tick ==
    /\ now < StartTime + MaxTicks * HalfCooldown
    /\ now' = now + HalfCooldown
    /\ UNCHANGED <<strategy, connected_vaults, reg_call>>
    /\ UNCHANGED <<execVars, riskVars, orchVars, loopVars>>

(***************************************************************************)
(* ComposableYieldOptimizer.optimize_vault.  Balances are in whole USDC,   *)
(* yields in basis points.  o_pc is                                        *)
(*   "idle"      optimize_vault is not running                             *)
(*   "analyze"   the balance was read and is sufficient                    *)
(*   "generate"  the yield is attractive; a strategy is asked for next     *)
(*   "score"     a strategy was generated; score_strategy comes next       *)
(*   "safe"      risk_score is known; is_strategy_safe comes next          *)
(*   "execute"   the gate accepted; execute is called or running           *)
(*   "returned"  optimize_vault has returned o_result                      *)
(***************************************************************************)
MinBalanceThreshold == 100
MinYieldThreshold == 500
AcceptanceThreshold == 60
DefaultRiskThreshold == 50

StrategyNames == {"aave_usdc", "compound_usdc"}

\* RobustStrategyExecutor.get_vault_balance: {} when a read of the chain
\* fails, the balances otherwise
NoBalance == [empty |-> TRUE, balance_usdc |-> 0, idle_usdc |-> 0]

get_vault_balance(read) ==
    IF read.st = "error" THEN NoBalance
    ELSE [empty |-> FALSE, balance_usdc |-> read.total, idle_usdc |-> read.idle]

\* only an unreadable balance stops the run
balance_too_low_empty_only(vb) == vb.empty

\* not vault_balance or vault_balance.get('balance_usdc', 0) < threshold
balance_too_low(vb) ==
    \/ vb.empty
    \/ vb.balance_usdc < MinBalanceThreshold

NoMarket == [best_apy |-> 0, best_strategy |-> "none"]

\* feed is what the data providers answer: an error, or the two supply rates
analyze_lending_pool_performance(feed) ==
    IF feed.st = "error" THEN
        [best_apy |-> MinYieldThreshold, best_strategy |-> "aave_usdc"]
    ELSE IF feed.aave >= feed.compound THEN
        [best_apy |-> feed.aave, best_strategy |-> "aave_usdc"]
    ELSE
        [best_apy |-> feed.compound, best_strategy |-> "compound_usdc"]

\* the action _enhance_strategy_for_vault appends
deploy_action(amount, strategy_address) ==
    Action(RequiredActionFields, "deploy_to_strategy",
           [req |-> TRUE, contract |-> "absent", protocol |-> "absent",
            amount |-> amount, strategy |-> strategy_address])

\* the strategy generate_strategy returns is a dict with the four scoring
\* fields (LLMPlanner._validate_strategy), so the branch that builds a basic
\* strategy is not taken
enhance_strategy_for_vault(draft, vb, mkt) ==
    IF vb.balance_usdc >= MinBalanceThreshold THEN
        IF mkt.best_strategy \notin strategy_addresses THEN draft
        ELSE [draft EXCEPT
                !.fields = @ \cup {"actions", "vault_address", "strategy_type"},
                !.actions = <<deploy_action((vb.balance_usdc * 8) \div 10,
                                            mkt.best_strategy)>>]
    ELSE [draft EXCEPT
            !.fields = @ \cup {"actions", "vault_address", "strategy_type"},
            !.actions = << >>]

\* KnowledgeBox.add_strategy_outcome: the record is stored under
\* outcome_<int(time.time())>
add_strategy_outcome(store, s, outcome) ==
    [id \in (DOMAIN store) \cup {now} |->
        IF id = now
        THEN [id |-> now, timestamp |-> now, strategy |-> s, outcome |-> outcome]
        ELSE store[id]]

\* the outcome dict optimize_vault builds after a successful execute; the
\* balance dict has no key USDC, so deployed_amount is 0
success_outcome ==
    [success |-> TRUE,
     executed_at |-> now,
     risk_score |-> risk_score,
     expected_apr |-> IF "expected_outcome" \in strategy.fields
                      THEN "expected_outcome.apr" ELSE "0",
     deployed_amount |-> 0]

\* add_strategy_outcome is called by any caller of the knowledge box
AddStrategyOutcome(s, outcome) ==
    /\ strategy_outcomes' = add_strategy_outcome(strategy_outcomes, s, outcome)
    /\ UNCHANGED <<strategy, o_pc, vault_balance, market, strategy_addresses, optimization_interval,
                   risk_score, is_safe, o_result, calls>>
    /\ UNCHANGED <<execVars, riskVars, regVars, loopVars>>

\* one second passes
Second ==
    /\ now < StartTime + MaxSeconds
    /\ now' = now + 1
    /\ UNCHANGED <<strategy, connected_vaults, reg_call>>
    /\ UNCHANGED <<execVars, riskVars, orchVars, loopVars>>

NoCalls == [generate |-> 0, score |-> 0, execute |-> 0]

\* the strategy variable before any strategy exists
NoStrategy == Strategy({}, "", << >>)

\* optimize_vault returns r
OptReturn(r) ==
    /\ o_pc' = "returned"
    /\ o_result' = r

\* optimize_vault is called (directly, or by the running cycle) and reads
\* the balance
OptimizeVault(read) ==
    /\ o_pc = "idle"
    /\ l_pc \in {"none", "optimize"}
    /\ vault_balance' = get_vault_balance(read)
    /\ calls' = NoCalls
    /\ IF balance_too_low(vault_balance') THEN OptReturn("true")
       ELSE o_pc' = "analyze" /\ o_result' = "none"
    /\ UNCHANGED <<strategy, market, strategy_addresses, optimization_interval, risk_score, is_safe,
                   strategy_outcomes>>
    /\ UNCHANGED <<execVars, riskVars, regVars, loopVars>>

\* the yield is not compared with the threshold
AnalyzeMarket_no_threshold(feed) ==
    /\ o_pc = "analyze"
    /\ market' = analyze_lending_pool_performance(feed)
    /\ o_pc' = "generate"
    /\ UNCHANGED <<strategy, vault_balance, strategy_addresses, optimization_interval, risk_score,
                   is_safe, o_result, calls, strategy_outcomes>>
    /\ UNCHANGED <<execVars, riskVars, regVars, loopVars>>

\* market_analysis = self.analyze_lending_pool_performance() and the check
\* of the best yield against min_yield_threshold
AnalyzeMarket(feed) ==
    /\ o_pc = "analyze"
    /\ market' = analyze_lending_pool_performance(feed)
    /\ IF market'.best_apy < MinYieldThreshold THEN OptReturn("true")
       ELSE o_pc' = "generate" /\ UNCHANGED o_result
    /\ UNCHANGED <<strategy, vault_balance, strategy_addresses, optimization_interval, risk_score,
                   is_safe, calls, strategy_outcomes>>
    /\ UNCHANGED <<execVars, riskVars, regVars, loopVars>>

\* generate_strategy raises: generate_optimization_strategy returns None
GenerateStrategyFails ==
    /\ o_pc = "generate"
    /\ calls' = [calls EXCEPT !.generate = @ + 1]
    /\ OptReturn("false")
    /\ UNCHANGED <<strategy, vault_balance, market, strategy_addresses, optimization_interval,
                   risk_score, is_safe, strategy_outcomes>>
    /\ UNCHANGED <<execVars, riskVars, regVars, loopVars>>

\* generate_strategy returns draft, which is enhanced; the engine has not
\* been asked to execute the new strategy
GenerateStrategy(draft) ==
    /\ o_pc = "generate"
    /\ calls' = [calls EXCEPT !.generate = @ + 1]
    /\ strategy' = enhance_strategy_for_vault(draft, vault_balance, market)
    /\ o_pc' = "score"
    /\ pc' = "idle"
    /\ idx' = 0
    /\ attempt' = 0
    /\ step' = 1
    /\ attempts' = [i \in 1..Len(strategy'.actions) |-> 0]
    /\ sleeps' = [i \in 1..Len(strategy'.actions) |-> << >>]
    /\ outcomes' = [i \in 1..Len(strategy'.actions) |-> << >>]
    /\ reported' = [i \in 1..Len(strategy'.actions) |-> "none"]
    /\ result' = "none"
    /\ UNCHANGED <<max_retries, min_gas_price, max_gas_price, private_key, rpc_at_startup, gasQuery, lastTx,
                   txs, awaiting>>
    /\ UNCHANGED <<vault_balance, market, strategy_addresses, optimization_interval, risk_score,
                   is_safe, o_result, strategy_outcomes>>
    /\ UNCHANGED <<riskVars, regVars, loopVars>>

\* risk_score = self.risk_model.score_strategy(strategy); det is how the
\* detector behaves during this call
ScoreForGate(det) ==
    /\ o_pc = "score"
    /\ detector' = det
    /\ risk_score' = score_strategy(strategy, risk_api, det)
    /\ calls' = [calls EXCEPT !.score = @ + 1]
    /\ o_pc' = "safe"
    /\ UNCHANGED <<strategy, risk_api, threshold, call>>
    /\ UNCHANGED <<vault_balance, market, strategy_addresses, optimization_interval, is_safe,
                   o_result, strategy_outcomes>>
    /\ UNCHANGED <<execVars, regVars, loopVars>>

\* the gate is is_safe alone
gate_is_safe_only(safe, score) == safe = "true"

\* if is_safe or risk_score < 0.6
gate(safe, score) == safe = "true" \/ score < AcceptanceThreshold

\* is_safe = self.risk_model.is_strategy_safe(strategy), a second scoring
\* call, and the gate
SafeForGate(det) ==
    /\ o_pc = "safe"
    /\ detector' = det
    /\ is_safe' = Bool(is_strategy_safe(strategy, DefaultRiskThreshold, risk_api, det))
    /\ calls' = [calls EXCEPT !.score = @ + 1]
    /\ IF gate(is_safe', risk_score) THEN o_pc' = "execute" /\ UNCHANGED o_result
       ELSE OptReturn("false")
    /\ UNCHANGED <<strategy, risk_api, threshold, call>>
    /\ UNCHANGED <<vault_balance, market, strategy_addresses, optimization_interval, risk_score,
                   strategy_outcomes>>
    /\ UNCHANGED <<execVars, regVars, loopVars>>

\* success = self.strategy_executor.execute(strategy)
CallExecute ==
    /\ o_pc = "execute"
    /\ ExecuteCall
    /\ calls' = [calls EXCEPT !.execute = @ + 1]
    /\ UNCHANGED <<o_pc, vault_balance, market, strategy_addresses, optimization_interval, risk_score,
                   is_safe, o_result, strategy_outcomes>>
    /\ UNCHANGED <<riskVars, regVars, loopVars>>

\* nothing is recorded after a successful execute
ExecuteReturns_no_record ==
    /\ o_pc = "execute"
    /\ pc = "done"
    /\ OptReturn(IF result = "true" THEN "true" ELSE "false")
    /\ UNCHANGED <<strategy, vault_balance, market, strategy_addresses, optimization_interval,
                   risk_score, is_safe, calls, strategy_outcomes>>
    /\ UNCHANGED <<execVars, riskVars, regVars, loopVars>>

\* execute has returned: the outcome is recorded after a success only
ExecuteReturns ==
    /\ o_pc = "execute"
    /\ pc = "done"
    /\ IF result = "true" THEN
          /\ strategy_outcomes' =
                add_strategy_outcome(strategy_outcomes, strategy, success_outcome)
          /\ OptReturn("true")
       ELSE
          /\ UNCHANGED strategy_outcomes
          /\ OptReturn("false")
    /\ UNCHANGED <<strategy, vault_balance, market, strategy_addresses, optimization_interval,
                   risk_score, is_safe, calls>>
    /\ UNCHANGED <<execVars, riskVars, regVars, loopVars>>

(***************************************************************************)
(* ComposableYieldOptimizer.run_continuous and run_optimization_cycle.     *)
(* l_pc is                                                                 *)
(*   "none"      run_continuous is not running                             *)
(*   "top"       at the top of the while loop                              *)
(*   "process"   in the cycle, inside the loop over the candidates         *)
(*   "optimize"  in the cycle, at or inside the call of optimize_vault     *)
(*   "sleep"     the cycle has returned; in time.sleep(interval)           *)
(*   "exited"    KeyboardInterrupt has ended the loop                      *)
(***************************************************************************)
OptimizationInterval == 3600

\* with no candidate the cycle returns without the primary vault
StartCycle_skip_when_none_due ==
    /\ l_pc = "top"
    /\ cycle < MaxCycles
    /\ cycle' = cycle + 1
    /\ active' = IF get_optimization_candidates = << >> THEN active
                 ELSE active \cup {cycle + 1}
    /\ todo' = get_optimization_candidates
    /\ reg_call' = [NoRegCall EXCEPT !.op = "get_optimization_candidates",
                       !.at = now, !.candidates = get_optimization_candidates]
    /\ l_pc' = IF get_optimization_candidates = << >> THEN "sleep" ELSE "process"
    /\ o_result' = "none"
    /\ UNCHANGED <<strategy, connected_vaults, now, o_pc, vault_balance, market,
                   strategy_addresses, optimization_interval, risk_score, is_safe, calls,
                   strategy_outcomes, last_pass>>
    /\ UNCHANGED <<execVars, riskVars>>

\* run_optimization_cycle is called: the candidates are fetched
StartCycle ==
    /\ l_pc = "top"
    /\ cycle < MaxCycles
    /\ cycle' = cycle + 1
    /\ active' = active \cup {cycle + 1}
    /\ todo' = get_optimization_candidates
    /\ reg_call' = [NoRegCall EXCEPT !.op = "get_optimization_candidates",
                       !.at = now, !.candidates = get_optimization_candidates]
    /\ l_pc' = IF get_optimization_candidates = << >> THEN "optimize" ELSE "process"
    /\ o_result' = "none"
    /\ UNCHANGED <<strategy, connected_vaults, now, o_pc, vault_balance, market,
                   strategy_addresses, optimization_interval, risk_score, is_safe, calls,
                   strategy_outcomes, last_pass>>
    /\ UNCHANGED <<execVars, riskVars>>

\* the history with the pair (v, u) processed at time t
passed_at(history, v, u, t) ==
    [p \in (DOMAIN history) \cup {<<v, u>>} |->
        IF p = <<v, u>> THEN t ELSE history[p]]

\* one pass of the loop over the candidates: process_royalty_vault returns
\* True and the record's last_optimized is set
ProcessCandidate ==
    /\ l_pc = "process"
    /\ todo # << >>
    /\ connected_vaults' =
          update_vault_status(Head(todo).vault_address, Head(todo).user_address,
                              "last_optimized").vaults
    /\ reg_call' = [NoRegCall EXCEPT !.op = "update_vault_status",
                       !.vault = Head(todo).vault_address,
                       !.user = Head(todo).user_address,
                       !.success = Bool(update_vault_status(Head(todo).vault_address,
                                            Head(todo).user_address,
                                            "last_optimized").success)]
    /\ last_pass' = passed_at(last_pass, Head(todo).vault_address,
                              Head(todo).user_address, now)
    /\ todo' = Tail(todo)
    /\ l_pc' = IF Tail(todo) = << >> THEN "optimize" ELSE "process"
    /\ UNCHANGED <<strategy, now, cycle, active>>
    /\ UNCHANGED <<execVars, riskVars, orchVars>>

\* an exception raised inside the loop over the candidates by the runtime
\* (the calls of the loop body catch their own): the except branch of
\* run_optimization_cycle logs it and the cycle returns
CycleException ==
    /\ l_pc = "process"
    /\ l_pc' = "sleep"
    /\ todo' = << >>
    /\ active' = active \ {cycle}
    /\ UNCHANGED <<strategy, cycle, last_pass>>
    /\ UNCHANGED <<execVars, riskVars, regVars, orchVars>>

\* optimize_vault has returned and so does the cycle
CycleReturns ==
    /\ l_pc = "optimize"
    /\ o_pc = "returned"
    /\ l_pc' = "sleep"
    /\ active' = active \ {cycle}
    /\ o_pc' = "idle"
    /\ UNCHANGED <<strategy, vault_balance, market, strategy_addresses, optimization_interval,
                   risk_score, is_safe, o_result, calls, strategy_outcomes,
                   cycle, todo, last_pass>>
    /\ UNCHANGED <<execVars, riskVars, regVars>>

\* the sleep ends only after a cycle in which optimize_vault returned True
Wake_after_success_only ==
    /\ l_pc = "sleep"
    /\ o_result = "true"
    /\ now' = now + optimization_interval
    /\ l_pc' = "top"
    /\ UNCHANGED <<strategy, connected_vaults, reg_call, cycle, todo, active,
                   last_pass>>
    /\ UNCHANGED <<execVars, riskVars, orchVars>>

\* time.sleep(self.optimization_interval) returns
Wake ==
    /\ l_pc = "sleep"
    /\ now' = now + optimization_interval
    /\ l_pc' = "top"
    /\ UNCHANGED <<strategy, connected_vaults, reg_call, cycle, todo, active,
                   last_pass>>
    /\ UNCHANGED <<execVars, riskVars, orchVars>>

\* the loop is left but the frame of execute goes on running
Interrupt_engine_goes_on ==
    /\ l_pc \in {"top", "process", "optimize", "sleep"}
    /\ l_pc' = "exited"
    /\ active' = {}
    /\ UNCHANGED <<strategy, cycle, todo, last_pass>>
    /\ UNCHANGED <<execVars, riskVars, regVars, orchVars>>

\* KeyboardInterrupt, wherever the loop is: no except Exception catches it
\* on the way up, so the frames of optimize_vault and of execute are left
\* and run_continuous breaks
Interrupt ==
    /\ l_pc \in {"top", "process", "optimize", "sleep"}
    /\ l_pc' = "exited"
    /\ active' = {}
    /\ o_pc' = "idle"
    /\ pc' = "idle"
    /\ UNCHANGED <<strategy, cycle, todo, last_pass>>
    /\ UNCHANGED <<max_retries, min_gas_price, max_gas_price, private_key, rpc_at_startup, idx, attempt,
                   step, gasQuery, lastTx, txs, awaiting, attempts, sleeps, outcomes,
                   reported, result>>
    /\ UNCHANGED <<vault_balance, market, strategy_addresses, optimization_interval, risk_score,
                   is_safe, o_result, calls, strategy_outcomes>>
    /\ UNCHANGED <<riskVars, regVars>>

(***************************************************************************)
(* Inputs                                                                  *)
(***************************************************************************)
DefaultMinGas == 1
DefaultMaxGas == 100

NoAddress(req) == Params(req, "absent", "absent")

GoodAction(tag) == Action(RequiredActionFields, tag, NoAddress(TRUE))
BadParamsAction(tag) == Action(RequiredActionFields, tag, NoAddress(FALSE))
NoTypeAction == Action({"parameters"}, "absent", NoAddress(TRUE))
NoParamsAction == Action({"action_type"}, "deploy_to_strategy", NoAddress(FALSE))
EmptyAction == Action({}, "absent", NoAddress(FALSE))

\* actions tried alone
SingleActions ==
    {GoodAction(t) : t \in RecognizedTags \cup {UnknownTag, UnhashableTag}}
    \cup {BadParamsAction(t) : t \in RecognizedTags}
    \cup {NoTypeAction, NoParamsAction, EmptyAction}

\* actions tried in lists of two
PairActions ==
    {GoodAction("deploy_to_strategy"), GoodAction("enable_yield_optimization"),
     GoodAction("claim_and_optimize"), GoodAction(UnknownTag),
     GoodAction(UnhashableTag), BadParamsAction("harvest_strategy"),
     NoTypeAction, NoParamsAction}

\* a two-transaction action next to each of these
RebalancePartners ==
    {GoodAction("deploy_to_strategy"), GoodAction(UnknownTag), NoParamsAction}

\* actions tried in longer lists
ListActions ==
    {GoodAction("deploy_to_strategy"), GoodAction("enable_yield_optimization"),
     GoodAction(UnknownTag), NoTypeAction}

ActionLists ==
    {<< >>} \cup {<<a>> : a \in SingleActions}
    \cup {<<a, b>> : a \in PairActions, b \in PairActions}
    \cup {<<GoodAction("rebalance_strategies"), b>> : b \in RebalancePartners}
    \cup {<<a, GoodAction("rebalance_strategies")>> : a \in RebalancePartners}
    \cup UNION {[1..n -> ListActions] : n \in 3..MaxActions}

ExecFieldSets == {S \cup {"expected_outcome"} : S \in SUBSET RequiredStrategyFields}

Strategies ==
    UNION {{Strategy(f, "aave", a) :
                a \in {l \in ActionLists : "actions" \in f \/ l = << >>}} :
           f \in ExecFieldSets}

GasQueries ==
    {[st |-> "error", g |-> 0]} \cup {[st |-> "ok", g |-> g] : g \in 0..(MaxGas + 1)}

AnomalyScores == {-60, -10, 0, 20, 50, 60}

Detectors ==
    {[kind |-> "raise", a |-> 0], [kind |-> "nodata", a |-> 0]}
    \cup {[kind |-> "score", a |-> a] : a \in AnomalyScores}

Thresholds == {30, 50, 60}

RiskApis == {"none", "nodetector", "ready"}

RiskParams ==
    {NoAddress(TRUE), Params(TRUE, "0xC1", "0xP1"), Params(TRUE, "absent", "0xP1"),
     Params(TRUE, "", "absent")}

RiskActions ==
    {Action(RequiredActionFields, "deploy_to_strategy", p) : p \in RiskParams}
    \cup {NoParamsAction}

RiskFieldSets == {ScoringFields} \cup {ScoringFields \ {f} : f \in ScoringFields}

RiskStrategies ==
    {Strategy(f, t, a) : f \in RiskFieldSets,
        t \in TargetProtocols,
        a \in UNION {[1..n -> RiskActions] : n \in 0..MaxRiskActions}}

\* what the chain answers to get_vault_balance: total assets and the idle
\* part of them
BalanceSamples == {40, 99, 100, 1000, 1001}

VaultReads ==
    {[st |-> "error", total |-> 0, idle |-> 0]}
    \cup UNION {{[st |-> "ok", total |-> t, idle |-> i] :
                    i \in {j \in {0, 100, t} : j <= t}} : t \in BalanceSamples}

ApySamples == {400, 500, 600}

Feeds ==
    {[st |-> "error", aave |-> 0, compound |-> 0]}
    \cup {[st |-> "ok", aave |-> a, compound |-> c] : a, c \in ApySamples}

\* what generate_strategy returns when it does not raise
Drafts ==
    {Strategy(ScoringFields, t, a) :
        t \in {"aave", "foo"},
        a \in {<< >>, <<GoodAction("emergency_exit")>>,
               <<GoodAction("enable_yield_optimization")>>}}

\* the strategies and outcomes handed to add_strategy_outcome
OutcomeStrategies ==
    {Strategy(ScoringFields, "aave", << >>), Strategy(ScoringFields, "foo", << >>)}

OutcomeSamples ==
    {[success |-> b, executed_at |-> t, risk_score |-> 30,
      expected_apr |-> "expected_outcome.apr", deployed_amount |-> 0] :
        b \in BOOLEAN, t \in {StartTime}}

\* the configured intervals between cycles, the pairs connected while the
\* loop runs, and a primary vault without funds
Intervals == {HalfCooldown, OptimizationInterval}

PassPairs == {<<"0xv1", "0xu1">>, <<"0xv2", "0xu1">>}

EmptyVaultReads ==
    {[st |-> "error", total |-> 0, idle |-> 0],
     [st |-> "ok", total |-> 40, idle |-> 40]}

\* the inputs of the cycles of the continuous mode
LoopVaultReads ==
    {[st |-> "error", total |-> 0, idle |-> 0],
     [st |-> "ok", total |-> 40, idle |-> 40],
     [st |-> "ok", total |-> 1000, idle |-> 1000]}

LoopFeeds ==
    {[st |-> "ok", aave |-> 400, compound |-> 400],
     [st |-> "ok", aave |-> 600, compound |-> 500]}

LoopDrafts == {Strategy(ScoringFields, "aave", << >>)}

LoopDetectors == {[kind |-> "nodata", a |-> 0], [kind |-> "score", a |-> 20]}

LoopGasQueries == {[st |-> "ok", g |-> 2]}

(***************************************************************************)
(* Specifications                                                          *)
(***************************************************************************)
\* the state of the engine after __init__, before execute is called
EngineInit ==
    /\ pc = "idle"
    /\ idx = 0
    /\ attempt = 0
    /\ step = 1
    /\ gasQuery = NoQuery
    /\ lastTx = NoTx
    /\ txs = << >>
    /\ awaiting = {}
    /\ attempts = [i \in 1..NActions |-> 0]
    /\ sleeps = [i \in 1..NActions |-> << >>]
    /\ private_key = TRUE
    /\ rpc_at_startup = Chains
    /\ outcomes = [i \in 1..NActions |-> << >>]
    /\ reported = [i \in 1..NActions |-> "none"]
    /\ result = "none"

\* the registry after __init__
RegistryInit ==
    /\ connected_vaults = << >>
    /\ now = StartTime
    /\ reg_call = NoRegCall

\* the orchestrator after __init__, optimize_vault not called
OrchIdle ==
    /\ o_pc = "idle"
    /\ vault_balance = NoBalance
    /\ market = NoMarket
    /\ strategy_addresses = StrategyNames
    /\ optimization_interval = OptimizationInterval
    /\ risk_score = 0
    /\ is_safe = "none"
    /\ o_result = "none"
    /\ calls = NoCalls
    /\ strategy_outcomes = << >>

\* run_continuous is not running
LoopIdle ==
    /\ l_pc = "none"
    /\ cycle = 0
    /\ todo = << >>
    /\ active = {}
    /\ last_pass = << >>

ScorerIdle ==
    /\ risk_api = "none"
    /\ detector = [kind |-> "raise", a |-> 0]
    /\ threshold = 50
    /\ call = NoCall

\* execute on any strategy, default gas bounds
Init ==
    /\ strategy \in Strategies
    /\ max_retries \in 0..MaxRetries
    /\ min_gas_price = DefaultMinGas
    /\ max_gas_price = DefaultMaxGas
    /\ EngineInit
    /\ ScorerIdle
    /\ RegistryInit
    /\ OrchIdle
    /\ LoopIdle

Next ==
    \/ Execute
    \/ DispatchNoTx
    \/ \E q \in GasQueries : BuildTx(q)
    \/ SendFails
    \/ SendTx
    \/ ReceiptOk
    \/ ReceiptFailed
    \/ ReceiptTimeout
    \/ Backoff
    \/ NextAction

Spec == Init /\ [][Next]_vars

\* execute under any configured gas bounds
GasStrategies ==
    {Strategy(ScoringFields, "aave", a) :
        a \in {<<GoodAction("deploy_to_strategy")>>,
               <<GoodAction("enable_yield_optimization"), GoodAction("claim_and_optimize")>>,
               <<GoodAction(UnknownTag)>>}}

InitGas ==
    /\ strategy \in GasStrategies
    /\ max_retries = 2
    /\ min_gas_price \in 0..MaxGas
    /\ max_gas_price \in 0..MaxGas
    /\ EngineInit
    /\ ScorerIdle
    /\ RegistryInit
    /\ OrchIdle
    /\ LoopIdle

SpecGas == InitGas /\ [][Next]_vars

\* one call of the scorer on any strategy
InitRisk ==
    /\ strategy \in RiskStrategies
    /\ risk_api \in RiskApis
    /\ detector \in Detectors
    /\ threshold \in Thresholds
    /\ call = NoCall
    /\ max_retries = 3
    /\ min_gas_price = DefaultMinGas
    /\ max_gas_price = DefaultMaxGas
    /\ EngineInit
    /\ RegistryInit
    /\ OrchIdle
    /\ LoopIdle

NextRisk ==
    \/ ScoreStrategy
    \/ IsStrategySafe
    \/ ApiIsStrategySafe

SpecRisk == InitRisk /\ [][NextRisk]_vars

\* any sequence of registry calls, with time passing between them
InitRegistry ==
    /\ strategy = Strategy(ScoringFields, "aave", << >>)
    /\ max_retries = 3
    /\ min_gas_price = DefaultMinGas
    /\ max_gas_price = DefaultMaxGas
    /\ EngineInit
    /\ ScorerIdle
    /\ RegistryInit
    /\ OrchIdle
    /\ LoopIdle

NextRegistry ==
    \/ \E p \in Pairs, a \in ChainAnswers : ConnectVault(p[1], p[2], a[1], a[2])
    \/ \E p \in Pairs : DisconnectVault(p[1], p[2])
    \/ \E p \in Pairs, upd \in StatusUpdates :
          UpdateVaultStatus(p[1], p[2], upd)
    \/ GetOptimizationCandidates
    \/ Tick

SpecRegistry == InitRegistry /\ [][NextRegistry]_vars

\* one call of optimize_vault
InitOptimize ==
    /\ strategy = NoStrategy
    /\ max_retries \in 1..MaxOptRetries
    /\ min_gas_price = DefaultMinGas
    /\ max_gas_price = DefaultMaxGas
    /\ EngineInit
    /\ risk_api \in RiskApis
    /\ detector = [kind |-> "raise", a |-> 0]
    /\ threshold = DefaultRiskThreshold
    /\ call = NoCall
    /\ RegistryInit
    /\ o_pc = "idle"
    /\ vault_balance = NoBalance
    /\ market = NoMarket
    /\ strategy_addresses \in {StrategyNames, {"aave_usdc"}}
    /\ optimization_interval = OptimizationInterval
    /\ risk_score = 0
    /\ is_safe = "none"
    /\ o_result = "none"
    /\ calls = NoCalls
    /\ strategy_outcomes = << >>
    /\ LoopIdle

\* the steps of the engine while execute runs
EngineStep ==
    \/ DispatchNoTx
    \/ \E q \in GasQueries : BuildTx(q)
    \/ SendFails
    \/ SendTx
    \/ ReceiptOk
    \/ ReceiptFailed
    \/ ReceiptTimeout
    \/ Backoff
    \/ NextAction

OptimizeStep ==
    \/ \E read \in VaultReads : OptimizeVault(read)
    \/ \E feed \in Feeds : AnalyzeMarket(feed)
    \/ GenerateStrategyFails
    \/ \E draft \in Drafts : GenerateStrategy(draft)
    \/ \E det \in Detectors : ScoreForGate(det)
    \/ \E det \in Detectors : SafeForGate(det)
    \/ CallExecute
    \/ ExecuteReturns

NextOptimize ==
    \/ OptimizeStep
    \/ EngineStep

SpecOptimize == InitOptimize /\ [][NextOptimize]_vars

\* construction under every environment, then execute on a one-action
\* strategy
InitConstruct ==
    /\ strategy \in {Strategy(ScoringFields, "aave", <<a>>) : a \in SingleActions}
    /\ max_retries = 2
    /\ min_gas_price = DefaultMinGas
    /\ max_gas_price = DefaultMaxGas
    /\ private_key \in BOOLEAN
    /\ rpc_at_startup \in SUBSET Chains
    /\ pc = "new"
    /\ idx = 0
    /\ attempt = 0
    /\ step = 1
    /\ gasQuery = NoQuery
    /\ lastTx = NoTx
    /\ txs = << >>
    /\ awaiting = {}
    /\ attempts = [i \in 1..NActions |-> 0]
    /\ sleeps = [i \in 1..NActions |-> << >>]
    /\ outcomes = [i \in 1..NActions |-> << >>]
    /\ reported = [i \in 1..NActions |-> "none"]
    /\ result = "none"
    /\ ScorerIdle
    /\ RegistryInit
    /\ OrchIdle
    /\ LoopIdle

NextConstruct ==
    \/ Construct
    \/ Next

SpecConstruct == InitConstruct /\ [][NextConstruct]_vars

\* any sequence of add_strategy_outcome calls, within a second and across
\* seconds
InitOutcomes == InitRegistry

NextOutcomes ==
    \/ \E s \in OutcomeStrategies, outcome \in OutcomeSamples :
          AddStrategyOutcome(s, outcome)
    \/ Second

SpecOutcomes == InitOutcomes /\ [][NextOutcomes]_vars

\* the continuous mode, entered with one vault connected
InitLoop ==
    /\ strategy = NoStrategy
    /\ max_retries = 1
    /\ min_gas_price = DefaultMinGas
    /\ max_gas_price = DefaultMaxGas
    /\ EngineInit
    /\ risk_api = "ready"
    /\ detector = [kind |-> "raise", a |-> 0]
    /\ threshold = DefaultRiskThreshold
    /\ call = NoCall
    /\ connected_vaults =
          [u \in {"0xu1"} |->
              <<connection_info("0xv1", "0xu1", check_user_ownership(1))>>]
    /\ now = StartTime
    /\ reg_call = NoRegCall
    /\ OrchIdle
    /\ l_pc = "top"
    /\ cycle = 0
    /\ todo = << >>
    /\ active = {}
    /\ last_pass = << >>

\* the continuous mode: the loop, and the steps of optimize_vault and of
\* the engine inside a cycle; every enhanced strategy is one deploy action,
\* so no action ends without a transaction
NextLoop ==
    \/ StartCycle
    \/ ProcessCandidate
    \/ CycleException
    \/ CycleReturns
    \/ Wake
    \/ Interrupt
    \/ \E read \in LoopVaultReads : OptimizeVault(read)
    \/ \E feed \in LoopFeeds : AnalyzeMarket(feed)
    \/ GenerateStrategyFails
    \/ \E draft \in LoopDrafts : GenerateStrategy(draft)
    \/ \E det \in LoopDetectors : ScoreForGate(det)
    \/ \E det \in LoopDetectors : SafeForGate(det)
    \/ CallExecute
    \/ ExecuteReturns
    \/ \E q \in LoopGasQueries : BuildTx(q)
    \/ SendFails
    \/ SendTx
    \/ ReceiptOk
    \/ ReceiptFailed
    \/ ReceiptTimeout
    \/ NextAction

\* the continuous mode under a configured interval, with connect_vault and
\* disconnect_vault called between the cycles; the primary vault holds too
\* little for optimize_vault to go past its balance check
InitPasses ==
    /\ strategy = NoStrategy
    /\ max_retries = 1
    /\ min_gas_price = DefaultMinGas
    /\ max_gas_price = DefaultMaxGas
    /\ EngineInit
    /\ ScorerIdle
    /\ RegistryInit
    /\ o_pc = "idle"
    /\ vault_balance = NoBalance
    /\ market = NoMarket
    /\ strategy_addresses = StrategyNames
    /\ optimization_interval \in Intervals
    /\ risk_score = 0
    /\ is_safe = "none"
    /\ o_result = "none"
    /\ calls = NoCalls
    /\ strategy_outcomes = << >>
    /\ l_pc = "top"
    /\ cycle = 0
    /\ todo = << >>
    /\ active = {}
    /\ last_pass = << >>

NextPasses ==
    \/ StartCycle
    \/ ProcessCandidate
    \/ CycleException
    \/ \E read \in EmptyVaultReads : OptimizeVault(read)
    \/ CycleReturns
    \/ Wake
    \/ Interrupt
    \/ /\ l_pc \in {"top", "sleep"}
       /\ \E p \in PassPairs : ConnectVault(p[1], p[2], "erc20", 1)
    \/ /\ l_pc \in {"top", "sleep"}
       /\ \E p \in PassPairs : DisconnectVault(p[1], p[2])

SpecPasses == InitPasses /\ [][NextPasses]_vars

\* the cycles as the calls of the loop body run them: process_royalty_vault
\* and update_vault_status catch every exception themselves, so the loop
\* over the candidates runs to its end; vaults are connected and
\* disconnected between the cycles, which makes cycles with and without
\* candidates
InitCycles ==
    /\ strategy = NoStrategy
    /\ max_retries = 1
    /\ min_gas_price = DefaultMinGas
    /\ max_gas_price = DefaultMaxGas
    /\ EngineInit
    /\ risk_api = "ready"
    /\ detector = [kind |-> "raise", a |-> 0]
    /\ threshold = DefaultRiskThreshold
    /\ call = NoCall
    /\ RegistryInit
    /\ o_pc = "idle"
    /\ vault_balance = NoBalance
    /\ market = NoMarket
    /\ strategy_addresses = StrategyNames
    /\ optimization_interval \in Intervals
    /\ risk_score = 0
    /\ is_safe = "none"
    /\ o_result = "none"
    /\ calls = NoCalls
    /\ strategy_outcomes = << >>
    /\ l_pc = "top"
    /\ cycle = 0
    /\ todo = << >>
    /\ active = {}
    /\ last_pass = << >>

NextCycles ==
    \/ StartCycle
    \/ ProcessCandidate
    \/ CycleReturns
    \/ Wake
    \/ Interrupt
    \/ /\ l_pc \in {"top", "sleep"}
       /\ \E p \in PassPairs : ConnectVault(p[1], p[2], "erc20", 1)
    \/ /\ l_pc \in {"top", "sleep"}
       /\ \E p \in PassPairs : DisconnectVault(p[1], p[2])
    \/ \E read \in LoopVaultReads : OptimizeVault(read)
    \/ \E feed \in LoopFeeds : AnalyzeMarket(feed)
    \/ GenerateStrategyFails
    \/ \E draft \in LoopDrafts : GenerateStrategy(draft)
    \/ \E det \in LoopDetectors : ScoreForGate(det)
    \/ \E det \in LoopDetectors : SafeForGate(det)
    \/ CallExecute
    \/ ExecuteReturns
    \/ \E q \in LoopGasQueries : BuildTx(q)
    \/ SendFails
    \/ SendTx
    \/ ReceiptOk
    \/ ReceiptFailed
    \/ ReceiptTimeout
    \/ NextAction

SpecCycles == InitCycles /\ [][NextCycles]_vars

\* a sleep ends, and the loop then calls the next cycle
SpecLoop ==
    /\ InitLoop
    /\ [][NextLoop]_vars
    /\ WF_vars(Wake)
    /\ WF_vars(StartCycle)

(***************************************************************************)
(* Properties                                                              *)
(***************************************************************************)
Last(seq) == seq[Len(seq)]

NoTransactions == txs = << >> /\ lastTx = NoTx

MissingTopLevelField == ~(RequiredStrategyFields \subseteq strategy.fields)

LacksField(action) ==
    "action_type" \notin action.fields \/ "parameters" \notin action.fields

Executable(action) ==
    /\ ~LacksField(action)
    /\ execute_action(action) = "build"

\* C1: a strategy lacking a required top-level field: execute returns failure
\* and no transaction is built or submitted on any chain.
C1_MissingFieldFails ==
    MissingTopLevelField =>
        /\ NoTransactions
        /\ \A i \in 1..NActions : attempts[i] = 0
        /\ pc \in {"idle", "done"}
        /\ pc = "done" => result = "false"

C1_Witness ==
    /\ MissingTopLevelField
    /\ pc = "done"
    /\ result = "false"
    /\ NActions > 0
    /\ \A i \in 1..NActions : Executable(strategy.actions[i])

MalformedAction ==
    \E i \in 1..NActions : LacksField(strategy.actions[i])

\* C2: a strategy with an action, at any position, lacking action_type or
\* parameters: execute returns failure, no action is dispatched and no
\* transaction is submitted, also not for well-formed actions before it.
C2_MalformedActionFails ==
    MalformedAction =>
        /\ NoTransactions
        /\ \A i \in 1..NActions : attempts[i] = 0
        /\ pc \in {"idle", "done"}
        /\ pc = "done" => result = "false"

C2_Witness ==
    /\ pc = "done"
    /\ result = "false"
    /\ ~MissingTopLevelField
    /\ NActions >= 2
    /\ Executable(strategy.actions[1])
    /\ LacksField(strategy.actions[NActions])

UnrecognizedAction ==
    \E i \in 1..NActions :
        /\ "action_type" \in strategy.actions[i].fields
        /\ strategy.actions[i].action_type \notin RecognizedTags

\* C3: a strategy with an action whose action_type is outside the eight
\* recognized tags never reaches execution: no transaction is submitted,
\* also not for recognized actions earlier in the list.
C3_UnrecognizedNeverExecutes ==
    UnrecognizedAction => txs = << >>

\* C4: an action whose handler fails k < max_retries times and then succeeds
\* is reported successful after exactly k+1 attempts; nothing is attempted
\* after the first success.
C4_RetryThenSuccess ==
    \A i \in 1..NActions :
        \A j \in 1..Len(outcomes[i]) :
            outcomes[i][j] = "ok" =>
                /\ j = Len(outcomes[i])
                /\ j - 1 < max_retries
                /\ attempts[i] = j
                /\ reported[i] = "true"

C4_Witness ==
    \E i \in 1..NActions :
        /\ Len(outcomes[i]) = 3
        /\ outcomes[i][1] # "ok"
        /\ outcomes[i][2] # "ok"
        /\ outcomes[i][3] = "ok"
        /\ reported[i] = "true"

\* action i has failed on all max_retries attempts
ExhaustedAt(i) ==
    /\ max_retries > 0
    /\ Len(outcomes[i]) >= max_retries
    /\ \A j \in 1..Len(outcomes[i]) : outcomes[i][j] # "ok"

Confirmed == {k \in DOMAIN txs : txs[k].status = "ok"}

\* C5: when an action of a validated strategy fails on all max_retries
\* attempts, execute returns failure, the action was attempted exactly
\* max_retries times, no later action is attempted, and the confirmed
\* transactions of earlier actions stay as they are: nothing is submitted
\* any more.
C5_AbandonAtFirstFailure ==
    /\ [](\A i \in 1..NActions :
            ExhaustedAt(i) =>
                /\ pc = "done"
                /\ result = "false"
                /\ reported[i] = "false"
                /\ attempts[i] = max_retries
                /\ \A j \in (i + 1)..NActions : attempts[j] = 0
                /\ \A k \in DOMAIN txs : txs[k].action <= i)
    /\ [][(\E i \in 1..NActions : ExhaustedAt(i)') =>
            /\ Len(txs') = Len(txs)
            /\ \A k \in Confirmed : txs'[k] = txs[k]]_vars

C5_Witness ==
    /\ NActions = 3
    /\ ExhaustedAt(2)
    /\ max_retries = 3
    /\ \E k \in Confirmed : txs[k].action = 1
    /\ Executable(strategy.actions[3])
    /\ pc = "done"

\* C6: actions run in list order, one at a time: action i+1 is first
\* attempted only after an attempt of action i returned success, and at
\* most one transaction is awaiting its receipt.
C6_Sequential ==
    /\ \A i \in 1..NActions :
          attempts[i] > 0 =>
              \A j \in 1..(i - 1) :
                  /\ reported[j] = "true"
                  /\ Last(outcomes[j]) = "ok"
    /\ \A i \in 1..NActions : attempts[i] > 0 => i <= idx
    /\ Cardinality(awaiting) <= 1
    /\ awaiting # {} <=> pc = "awaiting"
    /\ \A k \in awaiting : txs[k].action = idx

C6_Witness ==
    /\ NActions >= 2
    /\ idx = 2
    /\ Len(outcomes[1]) >= 2
    /\ pc = "awaiting"
    /\ Cardinality(awaiting) = 1
    /\ Len(txs) >= 3

Built == pc \in {"send", "awaiting"} /\ gasQuery.st = "ok"

\* C7 as stated: for every network gas price g and every configured pair,
\* the price in a built transaction is max(min_gas_price, min(g, max_gas_price)).
C7_ClampAnyBounds ==
    Built => lastTx.gasPrice = Max(min_gas_price, Min(gasQuery.g, max_gas_price))

\* C7 amended: the price in a built transaction is
\* max(min_gas_price, min(g, max_gas_price)) whenever
\* min_gas_price <= max_gas_price, and max_gas_price otherwise.
C7_ClampOrderedBounds ==
    Built =>
        IF min_gas_price <= max_gas_price
        THEN lastTx.gasPrice = Max(min_gas_price, Min(gasQuery.g, max_gas_price))
        ELSE lastTx.gasPrice = max_gas_price

C7_Witness ==
    /\ Built
    /\ min_gas_price < max_gas_price
    /\ gasQuery.g > max_gas_price
    /\ lastTx.gasPrice = max_gas_price

\* the step in which the wait for a receipt ends without a success receipt
ReceiptNotOk ==
    /\ pc = "awaiting"
    /\ pc' # "awaiting"
    /\ \A k \in awaiting : txs'[k].status # "ok"

\* C8: a receipt with failure status and a receipt not seen within the
\* timeout each fail the running attempt, and the failure is retried under
\* the retry policy: another attempt follows whenever fewer than
\* max_retries attempts have been made.
C8_ReceiptFailureRetried ==
    /\ [][ReceiptNotOk =>
            /\ Len(outcomes'[idx]) = Len(outcomes[idx]) + 1
            /\ Last(outcomes'[idx]) \in {"receipt_failed", "timeout"}
            /\ IF attempts[idx] < max_retries
               THEN pc' = "backoff" /\ result' = "none"
               ELSE pc' = "done" /\ result' = "false"]_vars
    /\ [][pc = "backoff" =>
            /\ pc' = "dispatch"
            /\ idx' = idx
            /\ attempt' = attempt + 1]_vars
    /\ [][pc = "dispatch" => attempts'[idx] = attempts[idx] + 1]_vars

C8_Witness ==
    /\ pc = "send"
    /\ attempts[idx] = 3
    /\ outcomes[idx] = <<"receipt_failed", "timeout">>

IsRawAddress(s) ==
    /\ "target_protocol" \in s.fields
    /\ s.target_protocol # NonString
    /\ startswith_0x(s.target_protocol)

IsKnownName(s) ==
    /\ "target_protocol" \in s.fields
    /\ s.target_protocol # NonString
    /\ lower(s.target_protocol) \in DOMAIN protocol_addresses

Unresolvable(s) ==
    /\ ~IsRawAddress(s)
    /\ ~IsKnownName(s)
    /\ \A i \in 1..Len(s.actions) :
          "parameters" \in s.actions[i].fields =>
              /\ s.actions[i].parameters.contract = "absent"
              /\ s.actions[i].parameters.protocol = "absent"

ModelUnavailable == risk_api \in {"none", "nodetector"}

\* C9: score_strategy returns exactly 0.5 for a strategy whose
\* target_protocol is neither a raw address nor a known name and whose
\* actions carry no contract or protocol parameter, and for every strategy
\* when the anomaly model is unavailable.
C9_DefaultScore ==
    (call.op = "score_strategy" /\ (Unresolvable(strategy) \/ ModelUnavailable))
        => call.score = DefaultScore

C9_Witness ==
    /\ call.op = "score_strategy"
    /\ Unresolvable(strategy)
    /\ validate_strategy_format(strategy)
    /\ strategy.target_protocol = "foo"
    /\ Len(strategy.actions) = 2
    /\ risk_api = "ready"
    /\ detector = [kind |-> "score", a |-> -60]
    /\ call.score = DefaultScore

DetectorReached(s) ==
    /\ validate_strategy_format(s)
    /\ extract_protocol_address(s) \notin {RaiseStr, ""}
    /\ risk_api = "ready"

\* a failure during feature extraction or scoring
ScoringFailure(s) ==
    \/ ~validate_strategy_format(s)
    \/ "target_protocol" \in s.fields /\ s.target_protocol = NonString
    \/ DetectorReached(s) /\ detector.kind \in {"raise", "nodata"}

\* C11: score_strategy never raises to its caller, and every failure during
\* feature extraction or scoring (an exception from the data fetch or the
\* detector, or a data fetch that yields no transactions) makes it return
\* the moderate-risk default 0.5.
C11_FailureGivesDefault ==
    call.op = "score_strategy" =>
        /\ call.score # RaiseNum
        /\ ScoringFailure(strategy) => call.score = DefaultScore

\* all records of a registry value, and those of one (vault, user) pair
Records(vaults) == Flatten(vaults, DOMAIN vaults)

RecordsOf(vaults, v, u) ==
    IF u \in DOMAIN vaults
    THEN {i \in 1..Len(vaults[u]) : vaults[u][i].vault_address = v}
    ELSE {}

\* the step is a connect_vault call whose chain answers make ownership or
\* validation fail
FailedGateConnect ==
    /\ reg_call'.op = "connect_vault"
    /\ \/ reg_call'.code # "erc20"
       \/ reg_call'.bal = 0
       \/ reg_call'.bal = RaiseNum

\* C12: connect_vault for a pair for which check_user_ownership reports
\* owns_tokens = false (zero balance or a failed balance read), or for which
\* vault validation fails, returns success = false and leaves the
\* registry's connections exactly as they were before the call.
C12_FailedConnectLeavesRegistry ==
    [][FailedGateConnect =>
          /\ reg_call'.success = "false"
          /\ connected_vaults' = connected_vaults]_vars

C12_Witness ==
    /\ reg_call.op = "connect_vault"
    /\ reg_call.code = "erc20"
    /\ reg_call.bal = 0
    /\ reg_call.success = "false"
    /\ reg_call.vault = "0xv2"
    /\ reg_call.user = "0xu1"
    /\ Len(Records(connected_vaults)) = 2
    /\ RecordsOf(connected_vaults, "0xv2", "0xu1") = {}

\* a record is due at time t
Due(rec, t) ==
    /\ rec.optimization_enabled
    /\ \/ rec.last_optimized = None
       \/ t - rec.last_optimized >= 3600

\* C13: get_optimization_candidates returns exactly the connections with
\* optimization_enabled true and with last_optimized either unset or at
\* least 3600 seconds before the current time: a connection optimized 1800s
\* ago is excluded, one optimized 7200s ago is included, and one optimized
\* exactly 3600s ago is included.
C13_CandidatesAreTheDue ==
    reg_call.op = "get_optimization_candidates" =>
        reg_call.candidates =
            SelectSeq(Records(connected_vaults), LAMBDA rec : Due(rec, reg_call.at))

C13_Witness ==
    /\ reg_call.op = "get_optimization_candidates"
    /\ Len(Records(connected_vaults)) = 3
    /\ Len(reg_call.candidates) = 2
    /\ \E i \in 1..3 :
          /\ reg_call.at - Records(connected_vaults)[i].last_optimized = 1800
          /\ \A k \in 1..2 : reg_call.candidates[k] # Records(connected_vaults)[i]
    /\ \E j \in 1..2 : reg_call.at - reg_call.candidates[j].last_optimized = 3600
    /\ \E j \in 1..2 : reg_call.at - reg_call.candidates[j].last_optimized = 7200

\* each user has at most one record per vault address
OnePerVault ==
    \A u \in DOMAIN connected_vaults :
        \A i, j \in 1..Len(connected_vaults[u]) :
            connected_vaults[u][i].vault_address = connected_vaults[u][j].vault_address
                => i = j

\* the step is a connect_vault call that returned success
SuccessfulConnect ==
    /\ reg_call'.op = "connect_vault"
    /\ reg_call'.success = "true"

BalanceBelowThreshold ==
    /\ o_pc # "idle"
    /\ ~vault_balance.empty
    /\ vault_balance.balance_usdc < MinBalanceThreshold

\* C14: when the primary vault's balance is below min_balance_threshold,
\* optimize_vault returns success and attempts zero actions: it requests no
\* strategy, performs no risk scoring, calls execute zero times, submits no
\* transaction and records no outcome.
C14_LowBalanceSkips ==
    BalanceBelowThreshold =>
        /\ o_pc = "returned"
        /\ o_result = "true"
        /\ calls = NoCalls
        /\ txs = << >>
        /\ strategy_outcomes = << >>

C14_Witness ==
    /\ o_pc = "returned"
    /\ ~vault_balance.empty
    /\ vault_balance.balance_usdc = 40
    /\ o_result = "true"
    /\ calls.generate = 0

\* the strategy is the enhanced one, with the deploy action of the enhancer
HasDeployAction ==
    /\ Len(strategy.actions) = 1
    /\ strategy.actions[1].action_type = "deploy_to_strategy"

\* C15: when the primary vault passes the balance and yield checks, the
\* deploy_to_strategy action added to the strategy has an amount equal to
\* 80% of the vault's idle balance rounded down (idle 1000 gives 800), for
\* every combination of total and idle balance.
C15_DeployEightyPercentOfIdle ==
    HasDeployAction =>
        strategy.actions[1].parameters.amount = (vault_balance.idle_usdc * 8) \div 10

\* C16: optimize_vault calls execute only if the risk score it obtained for
\* the strategy (the score it logs and records) is strictly below the
\* acceptance threshold 0.6, also when the scorer returns different values
\* on successive scoring calls.
C16_ExecuteOnlyBelowThreshold ==
    calls.execute > 0 => risk_score < AcceptanceThreshold

\* optimize_vault returned without a strategy, or after rejecting one
NoStrategyOrRejected ==
    /\ o_pc = "returned"
    /\ calls.generate = 1
    /\ calls.execute = 0

\* C17: when no strategy can be obtained for the primary vault, or the
\* obtained strategy's risk is unacceptable, optimize_vault submits no
\* transaction and returns success.
C17_NonActionIsSuccess ==
    NoStrategyOrRejected =>
        /\ txs = << >>
        /\ o_result = "true"

\* execute returned failure inside optimize_vault, which has returned
ExecuteFailedInCycle ==
    /\ o_pc = "returned"
    /\ calls.execute = 1
    /\ result = "false"

\* C18: whenever execute returns failure for a strategy inside
\* optimize_vault, a failed outcome (success flag false) for that strategy
\* is in the historical-outcomes store before the cycle ends.
C18_FailedOutcomeRecorded ==
    ExecuteFailedInCycle =>
        \E id \in DOMAIN strategy_outcomes :
            /\ strategy_outcomes[id].strategy = strategy
            /\ ~strategy_outcomes[id].outcome.success

\* cycle n has returned after a failure: optimize_vault returned False, or
\* an exception ended the cycle before optimize_vault was called
CycleFailed(n) ==
    /\ cycle = n
    /\ l_pc = "sleep"
    /\ o_result \in {"false", "none"}

\* at most one call of run_optimization_cycle is running, and it is the
\* latest one
NoOverlap ==
    /\ Cardinality(active) <= 1
    /\ active \subseteq {cycle}

\* C19: in continuous mode two cycles never overlap; a cycle starts only at
\* the top of the loop with no cycle running, and the top is reached again
\* only from the sleep, with the interval elapsed; and after a cycle that
\* ended in failure (execution failure or an exception inside the cycle) the
\* next cycle eventually starts unless the user interrupts.
C19_LoopGoesOnWithoutOverlap ==
    /\ []NoOverlap
    /\ [][cycle' # cycle => (l_pc = "top" /\ active = {} /\ cycle' = cycle + 1)]_vars
    /\ [][(l_pc' = "top" /\ l_pc # "top") =>
             (l_pc = "sleep" /\ active = {} /\ now' = now + OptimizationInterval)]_vars
    /\ \A n \in 1..(MaxCycles - 1) :
          CycleFailed(n) ~> (cycle = n + 1 \/ l_pc = "exited")

\* the second cycle is processing its candidate after the first cycle's
\* strategy execution failed
C19_Witness ==
    /\ cycle = 2
    /\ active = {2}
    /\ l_pc = "process"
    /\ result = "false"
    /\ now = StartTime + OptimizationInterval

RoyaltyWrapperTags ==
    {"claim_and_optimize", "emergency_exit", "claim_enhanced_royalties"}

StrategyTags == {"deploy_to_strategy", "harvest_strategy"}

\* the action_type of the action that submitted transaction k
TagOf(k) == strategy.actions[txs[k].action].action_type

\* C23: every transaction submitted for a royalty-wrapper action
\* (claim_and_optimize, emergency_exit, claim_enhanced_royalties) is on the
\* story chain, every transaction of a deposit or harvest action is on the
\* chain the address-to-chain lookup returns for the strategy address, and
\* no transaction is on a chain outside the configured set.
C23_ChainRouting ==
    \A k \in DOMAIN txs :
        /\ txs[k].chain \in Chains
        /\ TagOf(k) \in RoyaltyWrapperTags => txs[k].chain = "story"
        /\ TagOf(k) \in StrategyTags =>
              txs[k].chain = get_chain_for_strategy("strategy")

\* a royalty-wrapper action and a deposit have each submitted a transaction
C23_Witness ==
    /\ Len(txs) = 2
    /\ TagOf(1) = "claim_and_optimize" /\ txs[1].chain = "story"
    /\ TagOf(2) = "deploy_to_strategy" /\ txs[2].chain = "ethereum"
    /\ result = "true"

\* action i passes validation and its action_type is not a recognized tag
UnknownTagAt(i) ==
    /\ validate_strategy(strategy)
    /\ strategy.actions[i].action_type \notin RecognizedTags

\* C25: an action with an unrecognized action_type is a hard failure that is
\* never retried: it is dispatched at most once, no backoff wait is spent on
\* it, no transaction is submitted for it, it is never reported as succeeded,
\* and execute returns failure.
C25_UnknownTagNotRetried ==
    \A i \in 1..NActions :
        UnknownTagAt(i) =>
            /\ attempts[i] <= 1
            /\ ~(pc = "backoff" /\ idx = i)
            /\ \A k \in DOMAIN txs : txs[k].action # i
            /\ reported[i] # "true"
            /\ (pc = "done" /\ attempts[i] > 0) => result = "false"

\* 0.5 - a clamped to [0, 1], in hundredths
ClampedRisk(a) ==
    IF 50 - a < 0 THEN 0
    ELSE IF 50 - a > 100 THEN 100
    ELSE 50 - a

\* the detectors that return an anomaly score
ScoringDetectors == {d \in Detectors : d.kind = "score"}

\* C28: for every anomaly score a the detector returns, the risk score is
\* 0.5 - a clamped to [0, 1]; every value score_strategy returns lies in
\* [0, 1]; and the risk score does not decrease when the anomaly score does.
C28_ClampedRiskScore ==
    call.op = "score_strategy" =>
        /\ call.score >= 0 /\ call.score <= 100
        /\ (DetectorReached(strategy) /\ detector.kind = "score") =>
              /\ call.score = ClampedRisk(detector.a)
              /\ \A d \in ScoringDetectors :
                    d.a <= detector.a =>
                        score_strategy(strategy, risk_api, d) >= call.score

\* an anomaly score below -0.5 is scored 1.0, the upper end of the range
C28_Witness ==
    /\ call.op = "score_strategy"
    /\ DetectorReached(strategy)
    /\ detector = [kind |-> "score", a |-> -60]
    /\ call.score = 100

\* action i of s is in the actions list and carries a contract or a protocol
\* parameter
Carries(s, i) ==
    /\ "actions" \in s.fields
    /\ "parameters" \in s.actions[i].fields
    /\ \/ s.actions[i].parameters.contract # "absent"
       \/ s.actions[i].parameters.protocol # "absent"

\* the resolution the precedence gives
ResolvedByPrecedence(s) ==
    IF "target_protocol" \in s.fields /\ s.target_protocol = "0xabc"
        THEN s.target_protocol
    ELSE IF "target_protocol" \in s.fields
            /\ s.target_protocol \in {"aave", "AAVE"}
        THEN protocol_addresses["aave"]
    ELSE IF "target_protocol" \in s.fields /\ s.target_protocol = "Compound V3"
        THEN protocol_addresses["compound v3"]
    ELSE IF \E i \in 1..Len(s.actions) : Carries(s, i)
        THEN LET i == CHOOSE i \in 1..Len(s.actions) :
                        Carries(s, i) /\ \A j \in 1..(i - 1) : ~Carries(s, j)
                 p == s.actions[i].parameters
             IN  IF p.contract # "absent" THEN p.contract ELSE p.protocol
    ELSE ""

\* C29: protocol address resolution follows a fixed precedence: a
\* target_protocol starting with 0x is returned unchanged; otherwise a known
\* protocol name, matched case-insensitively, gives the table address;
\* otherwise the contract parameter, else the protocol parameter, of the
\* first action that carries either; otherwise the resolution is empty.
C29_ResolutionPrecedence ==
    call.op = "score_strategy" =>
        extract_protocol_address(strategy) = ResolvedByPrecedence(strategy)

\* the elements of a sequence
Elements(seq) == {seq[i] : i \in 1..Len(seq)}

\* the step is a disconnect_vault call
DisconnectStep ==
    /\ reg_call'.op = "disconnect_vault"
    /\ now' = now

\* the records of a registry value that are not of the pair (v, u)
OtherRecords(vaults, v, u) ==
    SelectSeq(Records(vaults),
              LAMBDA r : ~(r.vault_address = v /\ r.user_address = u))

\* C30: disconnect_vault(vault, user) reports success if and only if a
\* record of the pair existed; after a successful call no record of the pair
\* remains and the pair is not an optimization candidate; and in every case
\* the records of all other pairs are left as they were.
C30_DisconnectRemovesOnlyThePair ==
    [][DisconnectStep =>
          LET v == reg_call'.vault
              u == reg_call'.user
          IN  /\ reg_call'.success = "true" <=>
                    RecordsOf(connected_vaults, v, u) # {}
              /\ reg_call'.success = "true" =>
                    /\ RecordsOf(connected_vaults', v, u) = {}
                    /\ \A t \in {now + k * HalfCooldown : k \in 0..MaxTicks} :
                          \A c \in Elements(candidates_of(Records(connected_vaults'), t)) :
                              ~(c.vault_address = v /\ c.user_address = u)
              /\ OtherRecords(connected_vaults', v, u) =
                    OtherRecords(connected_vaults, v, u)]_vars

\* a pair was disconnected and the user's other vault is still connected
C30_Witness ==
    /\ reg_call.op = "disconnect_vault"
    /\ reg_call.success = "true"
    /\ reg_call.vault = "0xv1"
    /\ reg_call.user = "0xu1"
    /\ Len(get_user_vaults("0xu1")) = 1
    /\ get_user_vaults("0xu1")[1].vault_address = "0xv2"
    /\ Len(get_user_vaults("0xu2")) = 1

\* the sender's transactions on a chain, pending ones included
PendingCount(chain) ==
    Cardinality({i \in DOMAIN txs : txs[i].chain = chain})

\* C27: every built transaction carries as nonce the sender's pending
\* transaction count at build time, so no two transactions submitted on the
\* same chain carry the same nonce, also when a retry is submitted after a
\* confirmation timeout while the earlier transaction is still pending.
C27_DistinctNonces ==
    /\ pc = "send" => lastTx.nonce = PendingCount(lastTx.chain)
    /\ \A j, k \in DOMAIN txs :
          (j < k /\ txs[j].chain = txs[k].chain) => txs[j].nonce # txs[k].nonce

\* C24: the strategy-outcome store is append-only: every call of
\* add_strategy_outcome, calls within the same second included, adds
\* exactly one new record under its own identifier, and no stored record is
\* removed or overwritten.
C24_OutcomeStoreAppendOnly ==
    [][strategy_outcomes' # strategy_outcomes =>
          /\ Cardinality(DOMAIN strategy_outcomes') =
                Cardinality(DOMAIN strategy_outcomes) + 1
          /\ \A id \in DOMAIN strategy_outcomes :
                /\ id \in DOMAIN strategy_outcomes'
                /\ strategy_outcomes'[id] = strategy_outcomes[id]]_vars

RECURSIVE SumSeq(_)
SumSeq(seq) == IF seq = << >> THEN 0 ELSE Head(seq) + SumSeq(Tail(seq))

\* 1 + ... + n
Triangle(n) == (n * (n + 1)) \div 2

C22_ConstructionFailsFast ==
    (pc # "new" /\ (~private_key \/ rpc_at_startup # Chains)) => pc = "raised"

\* the step is one pass of the candidate loop of a cycle
ProcessStep ==
    /\ l_pc = "process"
    /\ l_pc' \in {"process", "optimize"}

\* C21: for any interleaving of connect, disconnect and optimization cycles,
\* a pair that a pass has processed is not processed in another pass until
\* at least one cooldown period (3600 seconds) has elapsed since that pass.
C21_CooldownBetweenPasses ==
    [][ProcessStep =>
          LET p == <<Head(todo).vault_address, Head(todo).user_address>>
          IN  p \in DOMAIN last_pass => now - last_pass[p] >= 3600]_vars

\* the market was analysed and its best yield is below min_yield_threshold
YieldBelowThreshold ==
    /\ o_pc \notin {"idle", "analyze"}
    /\ market.best_strategy # "none"
    /\ market.best_apy < MinYieldThreshold

\* C31: when the best available yield is below the minimum acceptable yield
\* threshold, optimize_vault skips the cycle: it requests no strategy
\* draft, performs no scoring, calls execute zero times and returns success.
C31_LowYieldSkips ==
    YieldBelowThreshold =>
        /\ o_pc = "returned"
        /\ o_result = "true"
        /\ calls = NoCalls
        /\ txs = << >>
        /\ strategy_outcomes = << >>

C31_Witness ==
    /\ o_pc = "returned"
    /\ vault_balance.balance_usdc = 1000
    /\ market.best_strategy = "aave_usdc"
    /\ market.best_apy = 400
    /\ o_result = "true"
    /\ calls = NoCalls

\* optimize_vault has returned after get_vault_balance failed to read the
\* chain
BalanceUnreadable ==
    /\ o_pc = "returned"
    /\ vault_balance.empty

\* C32: an infrastructure error counts as a failed cycle: when the primary
\* vault's balance cannot be read because the chain RPC is unreachable,
\* optimize_vault returns failure rather than reporting a successful skip.
C32_UnreadableBalanceFails ==
    BalanceUnreadable => o_result = "false"

\* a step in which optimize_vault is called
PrimaryAttempt == o_pc = "idle" /\ o_pc' # "idle"

\* a step in which run_optimization_cycle returns
CycleEnds == l_pc \in {"top", "process", "optimize"} /\ l_pc' = "sleep"

Broadcast == {i \in DOMAIN txs : txs[i].status = "pending"}

\* C34: after a user interrupt arrives in continuous mode, whether during
\* the sleep or in the middle of a cycle, no further cycle is started and
\* the loop terminates; the engine submits no transaction after the
\* interrupt and takes no step to cancel a transaction already broadcast.
\* The step that leaves the loop changes no transaction, and once the loop
\* is left it stays left, no cycle starts, no call of optimize_vault or of
\* execute is running, and the transactions stay as they are.
C34_InterruptStopsTheLoop ==
    /\ [][l_pc' = "exited" =>
             (txs' = txs /\ cycle' = cycle /\ active' = {})]_vars
    /\ [][l_pc = "exited" =>
             (l_pc' = "exited" /\ cycle' = cycle /\ txs' = txs /\ lastTx' = lastTx)]_vars
    /\ [](l_pc = "exited" => (active = {} /\ o_pc = "idle" /\ pc = "idle"))

\* the interrupt arrived while execute was waiting for the receipt of a
\* transaction it had broadcast
C34_Witness ==
    /\ l_pc = "exited"
    /\ cycle = 1
    /\ awaiting # {}
    /\ awaiting \subseteq Broadcast
    /\ lastTx # NoTx

\* a step in which optimize_vault returns
RunReturns == o_pc # "returned" /\ o_pc' = "returned"

\* the record of the returning run: success flag, the score of the first
\* scoring call, the expected APR of the strategy and the time of the call
RunRecord(rec) ==
    /\ rec.strategy = strategy
    /\ rec.outcome.success
    /\ rec.outcome.risk_score = risk_score
    /\ rec.outcome.expected_apr = "expected_outcome.apr"
    /\ rec.timestamp = now

\* the store after the step is the store before it and one more record,
\* which is the record of the returning run
OneRecordAdded ==
    /\ Cardinality(DOMAIN strategy_outcomes') = Cardinality(DOMAIN strategy_outcomes) + 1
    /\ \A id \in DOMAIN strategy_outcomes :
          id \in DOMAIN strategy_outcomes' /\ strategy_outcomes'[id] = strategy_outcomes[id]
    /\ \A id \in (DOMAIN strategy_outcomes') \ (DOMAIN strategy_outcomes) :
          RunRecord(strategy_outcomes'[id])

\* C35: each optimize_vault run in which execute returns success adds
\* exactly one outcome record to the store, carrying success = true, the
\* risk score obtained for the executed strategy, the expected APR and a
\* timestamp; a run in which execute is not called adds no record.  The
\* store changes in no other step than the return of such a run.
C35_OneOutcomePerSuccessfulRun ==
    /\ [][(RunReturns /\ o_pc = "execute" /\ result = "true") => OneRecordAdded]_vars
    /\ [][(RunReturns /\ calls.execute = 0) =>
             strategy_outcomes' = strategy_outcomes]_vars
    /\ [][strategy_outcomes' # strategy_outcomes =>
             (RunReturns /\ o_pc = "execute" /\ result = "true")]_vars

\* two cycles whose deposits of 800 were confirmed under a score of 0.3:
\* two records, one per run
C35_Witness ==
    /\ cycle = 2
    /\ o_pc = "returned"
    /\ o_result = "true"
    /\ vault_balance.balance_usdc = 1000
    /\ Len(txs) = 2
    /\ \A i \in DOMAIN txs : txs[i].status = "ok"
    /\ risk_score = 30
    /\ Cardinality(DOMAIN strategy_outcomes) = 2
    /\ \A id \in DOMAIN strategy_outcomes : strategy_outcomes[id].outcome.risk_score = 30

\* the only action is a deploy_to_strategy action on the contract of the
\* best-yielding strategy
OneDeployToBest(s) ==
    /\ Len(s.actions) = 1
    /\ s.actions[1].action_type = "deploy_to_strategy"
    /\ s.actions[1].parameters.strategy = market.best_strategy

\* C36: every strategy that optimize_vault passes to execute has an action
\* list consisting of exactly one deploy_to_strategy action whose target is
\* the deployed contract address of the best-yielding protocol; no action
\* drafted by the language model reaches execute, also when no contract
\* address is configured for the best-yielding protocol.
C36_OnlyTheDeployActionIsExecuted ==
    calls.execute > 0 => OneDeployToBest(strategy)

\* the transactions of action i that call op
TxsOf(i, op) == {k \in DOMAIN txs : txs[k].action = i /\ txs[k].op = op}

Rebalances ==
    {i \in 1..NActions : /\ "action_type" \in strategy.actions[i].fields
                         /\ strategy.actions[i].action_type = "rebalance_strategies"}

\* the deposits of action i that did not confirm with success, and have
\* stopped being waited for
FailedDeposits(i) ==
    {k \in TxsOf(i, "depositToStrategy") : txs[k].status # "ok" /\ k \notin awaiting}

\* every attempt of action i so far got its harvest confirmed and its
\* deposit, if it came to it, accepted by the node
HarvestsAllConfirmed(i) ==
    /\ \A k \in TxsOf(i, "harvestStrategy") : txs[k].status = "ok"
    /\ \A n \in 1..Len(outcomes[i]) : outcomes[i][n] # "send_error"

CompleteWithoutActions ==
    /\ RequiredStrategyFields \subseteq strategy.fields
    /\ strategy.actions = << >>

\* C38: for a strategy that has all required top-level fields and an empty
\* action list, execute returns success, dispatches no handler and submits
\* zero transactions.
C38_EmptyActionListSucceeds ==
    CompleteWithoutActions =>
        /\ pc \in {"idle", "done"}
        /\ pc = "done" => result = "true"
        /\ idx = 0
        /\ NoTransactions

C38_Witness ==
    /\ CompleteWithoutActions
    /\ pc = "done"
    /\ result = "true"
    /\ max_retries = 0
    /\ txs = << >>

\* the step is a successful connect_vault call on a pair that has a record
ReconnectStep ==
    /\ reg_call'.op = "connect_vault"
    /\ reg_call'.success = "true"
    /\ now' = now
    /\ RecordsOf(connected_vaults, reg_call'.vault, reg_call'.user) # {}

\* C39: a successful connect_vault on an already-connected (user, vault)
\* pair overwrites that record in place: last_optimized is reset to unset
\* and optimization_enabled to true, so the pair is an optimization
\* candidate immediately after the call whatever its previous
\* last_optimized was; the record keeps its position in the user's list and
\* all other records are unchanged.
C39_ReconnectResetsInPlace ==
    [][ReconnectStep =>
          LET v == reg_call'.vault
              u == reg_call'.user
              at == RecordsOf(connected_vaults, v, u)
          IN  /\ DOMAIN connected_vaults' = DOMAIN connected_vaults
              /\ \A x \in DOMAIN connected_vaults :
                    Len(connected_vaults'[x]) = Len(connected_vaults[x])
              /\ \A i \in at :
                    /\ connected_vaults'[u][i].vault_address = v
                    /\ connected_vaults'[u][i].user_address = u
                    /\ connected_vaults'[u][i].last_optimized = None
                    /\ connected_vaults'[u][i].optimization_enabled
              /\ \A x \in DOMAIN connected_vaults :
                    \A i \in 1..Len(connected_vaults[x]) :
                        (x # u \/ i \notin at) =>
                            connected_vaults'[x][i] = connected_vaults[x][i]
              /\ \E c \in Elements(candidates_of(Records(connected_vaults'), now)) :
                    c.vault_address = v /\ c.user_address = u]_vars

\* the first of a user's two vaults was connected again, one cooldown after
\* the start: it has kept the first place with last_optimized unset, and the
\* second vault has kept its last_optimized
C39_Witness ==
    /\ reg_call.op = "connect_vault"
    /\ reg_call.success = "true"
    /\ reg_call.vault = "0xv1"
    /\ reg_call.user = "0xu1"
    /\ now = StartTime + 2 * HalfCooldown
    /\ Len(get_user_vaults("0xu1")) = 2
    /\ get_user_vaults("0xu1")[1].vault_address = "0xv1"
    /\ get_user_vaults("0xu1")[1].last_optimized = None
    /\ get_user_vaults("0xu1")[2].last_optimized = StartTime + HalfCooldown
    /\ ~get_user_vaults("0xu1")[2].optimization_enabled

\* both scoring calls of the run are made, the first returned the default
\* 0.5, and the second meets a condition that yields the default: no
\* address resolves, the model is unavailable, or the detector raises
ScoredByDefault ==
    /\ calls.score = 2
    /\ risk_score = DefaultScore
    /\ \/ Unresolvable(strategy)
       \/ ModelUnavailable
       \/ detector.kind = "raise"

====
